---- MODULE Spec2Model ----
(***************************************************************************)
(* A model of jlox: the recursive-descent parser (src/src/parser.rs), the  *)
(* chained Environment (src/src/obj/environment.rs) and the tree-walking   *)
(* interpreter (src/src/interpreter.rs).                                   *)
(*                                                                         *)
(* Data is encoded as tuples whose first element is the variant name, so   *)
(* that two nodes of different variants are unequal without their payloads *)
(* being compared: <<"Number", n, d>>, <<"Binary", left, op, right>>, ...  *)
(***************************************************************************)
EXTENDS Integers, Sequences, FiniteSets, TLC

(***************************************************************************)
(* Bounds of the model.                                                    *)
(***************************************************************************)
\* longest statement vector handed to interpret()
MaxStmts == 3
\* deepest nesting of blocks in the statements handed to interpret()
MaxDepth == 2

VARIABLES
    \* ---- interpreter.rs: Interpreter and the call of interpret() ----
    program,        \* the argument `statements` of interpret()
    kont,           \* the call stack of execute_statement: loops in progress
    envs,           \* the heap of Environment objects (Rc<RefCell<Environment>>)
    environment,    \* Interpreter.environment: the active Environment
    output,         \* the lines written by println!
    raised,         \* the RuntimeError being propagated by `?`, or "none"
    result,         \* what interpret() returned, or "none" while it runs
    \* ---- parser.rs: the call of parse() ----
    parser,         \* the Parser: [tokens, current]
    statements,     \* the local `statements` of parse()
    had_error,      \* the local `had_error` of parse()
    stderr,         \* the errors written by eprintln!, in order
    parsed,         \* what parse() returned, None while it runs
    \* ---- scanner.rs: the call of scan_tokens() ----
    scanner,        \* the Scanner: [source, tokens, start, current, line],
                    \* and the local `had_error` of scan_tokens()
    scanned,        \* what scan_tokens() returned, None while it runs
    \* ---- obj/expression.rs: an Expression printed and read again ----
    original,       \* what expression() returned for the source; None before
    printed,        \* the characters Display wrote for it; None before
    reparsed,       \* what expression() returned for the printed text
    values,         \* what evaluating the two Expressions returned
    \* ---- the build and the entry point ----
    overflow_checks,  \* the build panics on integer overflow (debug profile)
    pc                \* which entry point is running: "scan", "parse",
                      \* "interpret", or "print" for the round trip

interp_vars == <<kont, envs, environment, output, raised, result>>
parse_vars == <<parser, statements, had_error, stderr, parsed>>
scan_vars == <<scanner, scanned>>
print_vars == <<original, printed, reparsed, values>>
vars == <<program, interp_vars, parse_vars, scan_vars, print_vars, overflow_checks, pc>>

(***************************************************************************)
(* Option<T>                                                               *)
(***************************************************************************)
None == <<"None">>
Some(x) == <<"Some", x>>
IsSome(o) == o[1] = "Some"
Unwrap(o) == o[2]

(***************************************************************************)
(* Value (src/src/value.rs).  A Number is an f64; it is modelled as a      *)
(* normalised fraction n/d with d > 0, and 1/0, -1/0, 0/0 for inf, -inf    *)
(* and NaN.  Rounding, overflow and the sign of zero are not modelled.     *)
(***************************************************************************)
Abs(n) == IF n < 0 THEN -n ELSE n
Sign(n) == IF n > 0 THEN 1 ELSE IF n < 0 THEN -1 ELSE 0

RECURSIVE Gcd(_, _)
Gcd(a, b) == IF b = 0 THEN a ELSE Gcd(b, a % b)

\* the f64 n/d, normalised
F64(n, d) ==
    IF d = 0 THEN <<Sign(n), 0>>
    ELSE LET g == Gcd(Abs(n), Abs(d))
             s == IF d < 0 THEN -1 ELSE 1
         IN  <<(s * n) \div g, (s * d) \div g>>

IsNaN(a) == a[1] = 0 /\ a[2] = 0
PosInf == <<1, 0>>
NegInf == <<-1, 0>>

f64_neg(a) == <<-a[1], a[2]>>
f64_add(a, b) ==
    IF IsNaN(a) \/ IsNaN(b) THEN <<0, 0>>
    ELSE IF a[2] = 0 /\ b[2] = 0 THEN (IF a = b THEN a ELSE <<0, 0>>)
    ELSE IF a[2] = 0 THEN a
    ELSE IF b[2] = 0 THEN b
    ELSE F64(a[1] * b[2] + b[1] * a[2], a[2] * b[2])
f64_sub(a, b) == f64_add(a, f64_neg(b))
f64_mul(a, b) == F64(a[1] * b[1], a[2] * b[2])
f64_recip(a) == IF a[1] < 0 THEN <<-a[2], -a[1]>> ELSE <<a[2], a[1]>>
f64_div(a, b) == LET r == f64_recip(b) IN F64(a[1] * r[1], a[2] * r[2])
f64_eq(a, b) == ~IsNaN(a) /\ ~IsNaN(b) /\ a = b
f64_lt(a, b) ==
    /\ ~IsNaN(a) /\ ~IsNaN(b) /\ a # b
    /\ IF a = NegInf \/ b = PosInf THEN TRUE
       ELSE IF a = PosInf \/ b = NegInf THEN FALSE
       ELSE a[1] * b[2] < b[1] * a[2]
f64_le(a, b) == f64_lt(a, b) \/ f64_eq(a, b)

Number(f) == <<"Number", f[1], f[2]>>
String(s) == <<"String", s>>
Bool(b) == <<"Bool", b>>
Nil == <<"Nil">>
\* the Number of an integer literal
Num(n) == Number(<<n, 1>>)
NumberOf(v) == <<v[2], v[3]>>

\* #[derive(PartialEq)] on Value: same variant and equal payloads (f64 ==)
ValueEq(a, b) ==
    /\ a[1] = b[1]
    /\ CASE a[1] = "Number" -> f64_eq(NumberOf(a), NumberOf(b))
         [] a[1] = "Nil" -> TRUE
         [] OTHER -> a[2] = b[2]

\* {} of an unsigned integer
RECURSIVE NatToStr(_)
NatToStr(n) ==
    LET digit == CASE n % 10 = 0 -> "0" [] n % 10 = 1 -> "1" [] n % 10 = 2 -> "2"
                   [] n % 10 = 3 -> "3" [] n % 10 = 4 -> "4" [] n % 10 = 5 -> "5"
                   [] n % 10 = 6 -> "6" [] n % 10 = 7 -> "7" [] n % 10 = 8 -> "8"
                   [] OTHER -> "9"
    IN  IF n < 10 THEN digit ELSE NatToStr(n \div 10) \o digit

\* the decimal digits of r/d (r < d), at most k of them
RECURSIVE FracDigits(_, _, _)
FracDigits(r, d, k) ==
    IF r = 0 \/ k = 0 THEN ""
    ELSE NatToStr((r * 10) \div d) \o FracDigits((r * 10) % d, d, k - 1)

\* Display of an f64
f64_display(a) ==
    IF IsNaN(a) THEN "NaN"
    ELSE IF a = PosInf THEN "inf"
    ELSE IF a = NegInf THEN "-inf"
    ELSE LET m == Abs(a[1])
             int == NatToStr(m \div a[2])
             frac == FracDigits(m % a[2], a[2], 16)
         IN  (IF a[1] < 0 THEN "-" ELSE "") \o int
                 \o (IF frac = "" THEN "" ELSE "." \o frac)

\* impl Display for Value
ValueDisplay(v) ==
    CASE v[1] = "String" -> v[2]
      [] v[1] = "Number" -> f64_display(NumberOf(v))
      [] v[1] = "Bool" -> (IF v[2] THEN "true" ELSE "false")
      [] OTHER -> "nil"

(***************************************************************************)
(* Token (src/src/obj/token.rs)                                            *)
(***************************************************************************)
Token(token_type, lexeme, literal, line) ==
    [token_type |-> token_type, lexeme |-> lexeme, literal |-> literal, line |-> line]

\* tokens as the scanner makes them, all on one line
Tok(token_type, lexeme) == Token(token_type, lexeme, None, 1)
IdentTok(name) == Token("Identifier", name, None, 1)
NumTok(n) == Token("Number", NatToStr(n), Some(Num(n)), 1)
StrTok(s) == Token("String", "\"" \o s \o "\"", Some(String(s)), 1)

(***************************************************************************)
(* Expression (src/src/obj/expression.rs), Statement (obj/statement.rs)    *)
(***************************************************************************)
Assign(name, expr) == <<"Assign", name, expr>>
Binary(left, op, right) == <<"Binary", left, op, right>>
Grouping(expr) == <<"Grouping", expr>>
Literal(val) == <<"Literal", val>>
Logical(left, op, right) == <<"Logical", left, op, right>>
Unary(op, right) == <<"Unary", op, right>>
Variable(name) == <<"Variable", name>>

\* Statement::Block, ::Expression, ::If, ::Print, ::Var, ::While
BlockStmt(stmts) == <<"Block", stmts>>
ExpressionStmt(expr) == <<"Expression", expr>>
IfStmt(cond, then, els) == <<"If", cond, then, els>>
PrintStmt(expr) == <<"Print", expr>>
VarStmt(name, init) == <<"Var", name, init>>
WhileStmt(cond, body) == <<"While", cond, body>>

(***************************************************************************)
(* Result<T>: <<"Ok", value, heap>> or <<"Err", error, heap>>.  Evaluation *)
(* returns the heap of Environments with it, as it may have assigned.      *)
(***************************************************************************)
Ok(val, h) == <<"Ok", val, h>>
Err(e, h) == <<"Err", e, h>>
IsOk(r) == r[1] = "Ok"

(***************************************************************************)
(* Environment (src/src/obj/environment.rs).  The heap h maps the address  *)
(* of each live Environment to its fields; `enclosing` is an Option of an  *)
(* address.                                                                *)
(***************************************************************************)
NewEnvironment(enclosing) == [values |-> <<>>, enclosing |-> enclosing]

\* the address Rc::new gives: the first one not in use
FreshAddr(h) == CHOOSE a \in 1..(Cardinality(DOMAIN h) + 1) : a \notin DOMAIN h

\* define_inner, keeping a binding the scope already has
define_inner_keeps(env, name, value) == [env EXCEPT !.values = @ @@ (name :> value)]

\* HashMap::insert
define_inner(env, name, value) == [env EXCEPT !.values = (name :> value) @@ @]

\* define on the shared handle: define_inner on the Environment it points to
define(h, addr, name, value) == [h EXCEPT ![addr] = define_inner(@, name, value)]

\* get, asking the enclosing scopes before the scope itself
RECURSIVE get_outermost(_, _, _)
get_outermost(h, addr, name) ==
    LET outer == IF IsSome(h[addr].enclosing)
                 THEN get_outermost(h, Unwrap(h[addr].enclosing), name)
                 ELSE Err("UndefinedVariable", h)
    IN  IF IsOk(outer) THEN outer
        ELSE IF name.lexeme \in DOMAIN h[addr].values
        THEN Ok(h[addr].values[name.lexeme], h)
        ELSE outer

RECURSIVE get(_, _, _)
get(h, addr, name) ==
    IF name.lexeme \in DOMAIN h[addr].values
    THEN Ok(h[addr].values[name.lexeme], h)
    ELSE IF IsSome(h[addr].enclosing)
    THEN get(h, Unwrap(h[addr].enclosing), name)
    ELSE Err("UndefinedVariable", h)

\* assign, inserting in the scope it is called on when the name is unknown
assign_declares(h, addr, name, value) ==
    Ok(Nil, [h EXCEPT ![addr].values = (name.lexeme :> value) @@ @])

RECURSIVE assign(_, _, _, _)
assign(h, addr, name, value) ==
    IF name.lexeme \in DOMAIN h[addr].values
    THEN Ok(Nil, [h EXCEPT ![addr].values = (name.lexeme :> value) @@ @])
    ELSE IF IsSome(h[addr].enclosing)
    THEN assign(h, Unwrap(h[addr].enclosing), name, value)
    ELSE Err("UndefinedVariable", h)

\* the Environments of the chain that starts at addr, innermost first
RECURSIVE Chain(_, _)
Chain(h, addr) ==
    IF IsSome(h[addr].enclosing)
    THEN <<addr>> \o Chain(h, Unwrap(h[addr].enclosing))
    ELSE <<addr>>

(***************************************************************************)
(* Interpreter: expressions (src/src/interpreter.rs)                       *)
(***************************************************************************)
\* is_truthy, Number(0) and the empty String falsy as well
is_truthy_zero_falsy(value) ==
    ~(\/ ValueEq(value, Nil) \/ ValueEq(value, Bool(FALSE))
      \/ ValueEq(value, Num(0)) \/ ValueEq(value, String("")))

is_truthy(value) == ~(ValueEq(value, Nil) \/ ValueEq(value, Bool(FALSE)))

\* is_equal, on what the two values print as
is_equal_coercing(first, second) == ValueDisplay(first) = ValueDisplay(second)

is_equal(first, second) ==
    IF ValueEq(first, Nil) /\ ValueEq(second, Nil) THEN TRUE
    ELSE IF ValueEq(first, Nil) THEN FALSE
    ELSE ValueEq(first, second)

\* get_number_operand, Nil and Bool taken as 0 and 1
get_number_operand_coercing(value, h) ==
    CASE value[1] = "Number" -> Ok(NumberOf(value), h)
      [] value[1] = "Nil" -> Ok(<<0, 1>>, h)
      [] value[1] = "Bool" -> Ok(IF value[2] THEN <<1, 1>> ELSE <<0, 1>>, h)
      [] OTHER -> Err("NumberOperand", h)

\* Ok(f64) or Err(NumberOperand)
get_number_operand(value, h) ==
    IF value[1] = "Number" THEN Ok(NumberOf(value), h) ELSE Err("NumberOperand", h)

\* one arm of handle_binary that takes two Numbers, on the two f64
NumberOp(token_type, a, b) ==
    CASE token_type = "Minus" -> Number(f64_sub(a, b))
      [] token_type = "Slash" -> Number(f64_div(a, b))
      [] token_type = "Star" -> Number(f64_mul(a, b))
      [] token_type = "Greater" -> Bool(f64_lt(b, a))
      [] token_type = "GreaterEqual" -> Bool(f64_le(b, a))
      [] token_type = "Less" -> Bool(f64_lt(a, b))
      [] OTHER -> Bool(f64_le(a, b))

\* get_number_operand(left_val)? op get_number_operand(right_val)?
NumberOperands(operator, left_val, right_val, h) ==
    LET l == get_number_operand(left_val, h)
        r == get_number_operand(right_val, h)
    IN  IF ~IsOk(l) THEN l
        ELSE IF ~IsOk(r) THEN r
        ELSE Ok(NumberOp(operator.token_type, l[2], r[2]), h)

\* handle_binary, + taking its operands through get_number_operand when
\* they are not two Strings
BinaryOp_plus_number_operand(operator, left_val, right_val, h) ==
    CASE operator.token_type \in {"Minus", "Slash", "Star", "Greater", "GreaterEqual", "Less", "LessEqual"} ->
            NumberOperands(operator, left_val, right_val, h)
      [] operator.token_type = "Plus" ->
            IF left_val[1] = "String" /\ right_val[1] = "String"
            THEN Ok(String(left_val[2] \o right_val[2]), h)
            ELSE LET l == get_number_operand(left_val, h)
                     r == get_number_operand(right_val, h)
                 IN  IF ~IsOk(l) THEN l
                     ELSE IF ~IsOk(r) THEN r
                     ELSE Ok(Number(f64_add(l[2], r[2])), h)
      [] operator.token_type = "BangEqual" -> Ok(Bool(~is_equal(left_val, right_val)), h)
      [] operator.token_type = "EqualEqual" -> Ok(Bool(is_equal(left_val, right_val)), h)
      [] OTHER -> Err("Unknown", h)

\* the match of handle_binary, on the two operand values
BinaryOp(operator, left_val, right_val, h) ==
    CASE operator.token_type \in {"Minus", "Slash", "Star", "Greater", "GreaterEqual", "Less", "LessEqual"} ->
            NumberOperands(operator, left_val, right_val, h)
      [] operator.token_type = "Plus" ->
            IF left_val[1] = "Number" /\ right_val[1] = "Number"
            THEN Ok(Number(f64_add(NumberOf(left_val), NumberOf(right_val))), h)
            ELSE IF left_val[1] = "String" /\ right_val[1] = "String"
            THEN Ok(String(left_val[2] \o right_val[2]), h)
            ELSE Err("IncompatibleTypes", h)
      [] operator.token_type = "BangEqual" -> Ok(Bool(~is_equal(left_val, right_val)), h)
      [] operator.token_type = "EqualEqual" -> Ok(Bool(is_equal(left_val, right_val)), h)
      [] OTHER -> Err("Unknown", h)

\* the match of handle_unary, on the operand value
UnaryOp(operator, right_val, h) ==
    CASE operator.token_type = "Minus" ->
            LET n == get_number_operand(right_val, h)
            IN  IF IsOk(n) THEN Ok(Number(f64_neg(n[2])), h) ELSE n
      [] operator.token_type = "Bang" -> Ok(Bool(~is_truthy(right_val)), h)
      [] OTHER -> Err("Unknown", h)

RECURSIVE evaluate_expression(_, _, _)

\* evaluate_expression, a Logical evaluating both operands before it chooses
evaluate_expression_eager(h, addr, expr) ==
    CASE expr[1] = "Assign" ->
            LET value == evaluate_expression(h, addr, expr[3])
                a == assign(value[3], addr, expr[2], value[2])
            IN  IF ~IsOk(value) THEN value
                ELSE IF ~IsOk(a) THEN a
                ELSE Ok(value[2], a[3])
      [] expr[1] = "Binary" ->
            LET left_val == evaluate_expression(h, addr, expr[2])
                right_val == evaluate_expression(left_val[3], addr, expr[4])
            IN  IF ~IsOk(left_val) THEN left_val
                ELSE IF ~IsOk(right_val) THEN right_val
                ELSE BinaryOp(expr[3], left_val[2], right_val[2], right_val[3])
      [] expr[1] = "Grouping" -> evaluate_expression(h, addr, expr[2])
      [] expr[1] = "Literal" -> Ok(expr[2], h)
      [] expr[1] = "Logical" ->
            LET left_val == evaluate_expression(h, addr, expr[2])
                right_val == evaluate_expression(left_val[3], addr, expr[4])
            IN  IF ~IsOk(left_val) THEN left_val
                ELSE IF ~IsOk(right_val) THEN right_val
                ELSE IF expr[3].token_type = "Or" /\ is_truthy(left_val[2])
                THEN Ok(left_val[2], right_val[3])
                ELSE IF expr[3].token_type # "Or" /\ ~is_truthy(left_val[2])
                THEN Ok(left_val[2], right_val[3])
                ELSE right_val
      [] expr[1] = "Unary" ->
            LET right_val == evaluate_expression(h, addr, expr[3])
            IN  IF ~IsOk(right_val) THEN right_val
                ELSE UnaryOp(expr[2], right_val[2], right_val[3])
      [] expr[1] = "Variable" -> get(h, addr, expr[2])

\* evaluate_expression, a Binary evaluating its right operand first
evaluate_expression_right_first(h, addr, expr) ==
    CASE expr[1] = "Assign" ->
            LET value == evaluate_expression(h, addr, expr[3])
                a == assign(value[3], addr, expr[2], value[2])
            IN  IF ~IsOk(value) THEN value
                ELSE IF ~IsOk(a) THEN a
                ELSE Ok(value[2], a[3])
      [] expr[1] = "Binary" ->
            LET right_val == evaluate_expression(h, addr, expr[4])
                left_val == evaluate_expression(right_val[3], addr, expr[2])
            IN  IF ~IsOk(right_val) THEN right_val
                ELSE IF ~IsOk(left_val) THEN left_val
                ELSE BinaryOp(expr[3], left_val[2], right_val[2], left_val[3])
      [] expr[1] = "Grouping" -> evaluate_expression(h, addr, expr[2])
      [] expr[1] = "Literal" -> Ok(expr[2], h)
      [] expr[1] = "Logical" ->
            LET left_val == evaluate_expression(h, addr, expr[2])
            IN  IF ~IsOk(left_val) THEN left_val
                ELSE IF expr[3].token_type = "Or" /\ is_truthy(left_val[2]) THEN left_val
                ELSE IF expr[3].token_type # "Or" /\ ~is_truthy(left_val[2]) THEN left_val
                ELSE evaluate_expression(left_val[3], addr, expr[4])
      [] expr[1] = "Unary" ->
            LET right_val == evaluate_expression(h, addr, expr[3])
            IN  IF ~IsOk(right_val) THEN right_val
                ELSE UnaryOp(expr[2], right_val[2], right_val[3])
      [] expr[1] = "Variable" -> get(h, addr, expr[2])

\* evaluate_expression with handle_binary and handle_unary, in the
\* Environment at addr of heap h
evaluate_expression(h, addr, expr) ==
    CASE expr[1] = "Assign" ->
            LET value == evaluate_expression(h, addr, expr[3])
                a == assign(value[3], addr, expr[2], value[2])
            IN  IF ~IsOk(value) THEN value
                ELSE IF ~IsOk(a) THEN a
                ELSE Ok(value[2], a[3])
      [] expr[1] = "Binary" ->
            LET left_val == evaluate_expression(h, addr, expr[2])
                right_val == evaluate_expression(left_val[3], addr, expr[4])
            IN  IF ~IsOk(left_val) THEN left_val
                ELSE IF ~IsOk(right_val) THEN right_val
                ELSE BinaryOp(expr[3], left_val[2], right_val[2], right_val[3])
      [] expr[1] = "Grouping" -> evaluate_expression(h, addr, expr[2])
      [] expr[1] = "Literal" -> Ok(expr[2], h)
      [] expr[1] = "Logical" ->
            LET left_val == evaluate_expression(h, addr, expr[2])
            IN  IF ~IsOk(left_val) THEN left_val
                ELSE IF expr[3].token_type = "Or" /\ is_truthy(left_val[2]) THEN left_val
                ELSE IF expr[3].token_type # "Or" /\ ~is_truthy(left_val[2]) THEN left_val
                ELSE evaluate_expression(left_val[3], addr, expr[4])
      [] expr[1] = "Unary" ->
            LET right_val == evaluate_expression(h, addr, expr[3])
            IN  IF ~IsOk(right_val) THEN right_val
                ELSE UnaryOp(expr[2], right_val[2], right_val[3])
      [] expr[1] = "Variable" -> get(h, addr, expr[2])

(***************************************************************************)
(* Interpreter: statements.  execute_statement is recursive; its call      *)
(* stack is kont, innermost call first.  A frame is one of                 *)
(*   <<"interpret", rest>>        the for loop of interpret()              *)
(*   <<"block", rest, prev_env>>  the for loop of a Block, and the         *)
(*                                Environment to restore after it          *)
(*   <<"exec", stmt>>             a call of execute_statement about to run *)
(* where rest holds the statements the loop has not reached yet.           *)
(***************************************************************************)
InterpretFrame(rest) == <<"interpret", rest>>
BlockFrame(rest, prev_env) == <<"block", rest, prev_env>>
ExecFrame(stmt) == <<"exec", stmt>>

\* the interpreter's state as one record
IState == [kont |-> kont, envs |-> envs, environment |-> environment,
           output |-> output, raised |-> raised, result |-> result]

\* Interpreter::new() and the call interpret(statements)
InterpreterNew(stmts) ==
    [kont |-> <<InterpretFrame(stmts)>>,
     envs |-> (1 :> NewEnvironment(None)),
     environment |-> 1,
     output |-> <<>>,
     raised |-> "none",
     result |-> "none"]

\* a frame holds a statement that is the next to execute
HasNext(frame) == IF frame[1] = "exec" THEN TRUE ELSE frame[2] # <<>>
\* the statement the innermost call executes next
NextStmt(s) == LET f == Head(s.kont) IN IF f[1] = "exec" THEN f[2] ELSE Head(f[2])
\* the stack once that statement is taken from its frame
Taken(k) ==
    LET f == Head(k)
    IN  IF f[1] = "exec" THEN Tail(k)
        ELSE IF f[1] = "interpret" THEN <<InterpretFrame(Tail(f[2]))>> \o Tail(k)
        ELSE <<BlockFrame(Tail(f[2]), f[3])>> \o Tail(k)

Executing(s, kind) ==
    /\ s.result = "none" /\ s.raised = "none" /\ s.kont # <<>>
    /\ HasNext(Head(s.kont)) /\ NextStmt(s)[1] = kind

\* the Environments an Rc still points to: the active one, the prev_env of
\* the blocks in progress, and what these enclose
Live(h, addr, k) ==
    LET roots == {addr} \cup {k[i][3] : i \in {j \in DOMAIN k : k[j][1] = "block"}}
    IN  UNION {{Chain(h, r)[i] : i \in DOMAIN Chain(h, r)} : r \in roots}
\* an Rc whose last reference goes is dropped
Drop(h, addr, k) == [a \in Live(h, addr, k) |-> h[a]]

\* Statement::Block, lines 53-54: the new Environment encloses the active one
ExecBlock(s) ==
    LET stmt == NextStmt(s)
        prev_env == s.environment
        new == FreshAddr(s.envs)
    IN  [s EXCEPT !.kont = <<BlockFrame(stmt[2], prev_env)>> \o Taken(s.kont),
                  !.envs = (new :> NewEnvironment(Some(prev_env))) @@ s.envs,
                  !.environment = new]

\* ExitBlock, the error leaving the block before the Environment is restored
ExitBlock_on_success_only(s) ==
    IF s.raised # "none" THEN [s EXCEPT !.kont = Tail(s.kont)]
    ELSE [s EXCEPT !.kont = Tail(s.kont),
                   !.environment = Head(s.kont)[3],
                   !.envs = [a \in DOMAIN s.envs \ {s.environment} |-> s.envs[a]]]

\* Statement::Block, lines 61-62: the loop is over, or a statement of it
\* failed; the previous Environment is active again, the error goes on
ExitBlock(s) ==
    LET prev_env == Head(s.kont)[3]
    IN  [s EXCEPT !.kont = Tail(s.kont),
                  !.environment = prev_env,
                  !.envs = Drop(s.envs, prev_env, Tail(s.kont))]

\* the `?` on a failed evaluation: the statement is over, the error goes on
Raise(s, r) == [s EXCEPT !.kont = Taken(s.kont), !.envs = r[3], !.raised = r[2]]

\* Statement::Expression
ExecExpression(s) ==
    LET r == evaluate_expression(s.envs, s.environment, NextStmt(s)[2])
    IN  IF ~IsOk(r) THEN Raise(s, r)
        ELSE [s EXCEPT !.kont = Taken(s.kont), !.envs = r[3]]

\* Statement::If
ExecIf(s) ==
    LET stmt == NextStmt(s)
        r == evaluate_expression(s.envs, s.environment, stmt[2])
    IN  IF ~IsOk(r) THEN Raise(s, r)
        ELSE IF is_truthy(r[2])
        THEN [s EXCEPT !.kont = <<ExecFrame(stmt[3])>> \o Taken(s.kont), !.envs = r[3]]
        ELSE IF IsSome(stmt[4])
        THEN [s EXCEPT !.kont = <<ExecFrame(Unwrap(stmt[4]))>> \o Taken(s.kont), !.envs = r[3]]
        ELSE [s EXCEPT !.kont = Taken(s.kont), !.envs = r[3]]

\* Statement::Print
ExecPrint(s) ==
    LET r == evaluate_expression(s.envs, s.environment, NextStmt(s)[2])
    IN  IF ~IsOk(r) THEN Raise(s, r)
        ELSE [s EXCEPT !.kont = Taken(s.kont), !.envs = r[3],
                       !.output = Append(s.output, ValueDisplay(r[2]))]

\* Statement::Var
ExecVar(s) ==
    LET stmt == NextStmt(s)
        r == IF IsSome(stmt[3])
             THEN evaluate_expression(s.envs, s.environment, Unwrap(stmt[3]))
             ELSE Ok(Nil, s.envs)
    IN  IF ~IsOk(r) THEN Raise(s, r)
        ELSE [s EXCEPT !.kont = Taken(s.kont),
                       !.envs = define(r[3], s.environment, stmt[2].lexeme, r[2])]

\* InterpretReturn, going on with the next statement after an error
InterpretReturn_recovers(s) ==
    IF s.raised # "none" /\ HasNext(Head(s.kont)) THEN [s EXCEPT !.raised = "none"]
    ELSE [s EXCEPT !.kont = Tail(s.kont),
                   !.result = IF s.raised = "none" THEN "Ok" ELSE s.raised,
                   !.raised = "none"]

\* interpret(), line 40: the `?` returns the error; line 42: Ok(())
InterpretReturn(s) ==
    [s EXCEPT !.kont = Tail(s.kont),
              !.result = IF s.raised = "none" THEN "Ok" ELSE s.raised,
              !.raised = "none"]

(***************************************************************************)
(* Parser (src/src/parser.rs).  A method taking &mut self is an operator   *)
(* of self = [tokens, current] whose result carries the Parser it leaves:  *)
(* <<"Ok", value, self>>, <<"Err", error, self>>, or <<"Panic", message,   *)
(* self>> when the thread panics.  `?` passes on whatever is not Ok.       *)
(* tokens is never empty: scan_tokens always ends it with Eof.             *)
(***************************************************************************)
\* the width of usize, of the narrowest target Rust has; a wider one wraps
\* current - 1 to a larger index still
UsizeBits == 16

Panic(msg, h) == <<"Panic", msg, h>>
Unit == <<"()">>

\* let v = call: Bind({body : v \in {call}}) makes the call once and is the
\* body with v its result
Bind(S) == CHOOSE v \in S : TRUE

\* Some(value) of an Ok result: Some(call?)
SomeOk(r) == Bind({IF IsOk(v) THEN Ok(Some(v[2]), v[3]) ELSE v : v \in {r}})

ParserNew(tokens) == [tokens |-> tokens, current |-> 0]

\* Vec::get(index).ok_or(TokenAccessError(self.current))
TokenAt(self, index) ==
    IF index < Len(self.tokens)
    THEN Ok(self.tokens[index + 1], self)
    ELSE Err(<<"TokenAccessError", self.current>>, self)

is_at_end(self) == self.current >= Len(self.tokens) - 1

peek(self) == TokenAt(self, self.current)

\* self.current - 1 panics on overflow when the build checks it, and wraps
\* when it does not
previous(self) ==
    IF self.current < 1 /\ overflow_checks
    THEN Panic("attempt to subtract with overflow", self)
    ELSE TokenAt(self, (self.current - 1) % (2 ^ UsizeBits))

\* enum TokenType
TokenTypes ==
    {"LeftParen", "RightParen", "LeftBrace", "RightBrace", "Comma", "Dot", "Minus",
     "Plus", "Semicolon", "Slash", "Star", "Bang", "BangEqual", "Equal", "EqualEqual",
     "Greater", "GreaterEqual", "Less", "LessEqual", "Identifier", "String", "Number",
     "And", "Class", "Else", "False", "Fun", "For", "If", "Nil", "Or", "Print",
     "Return", "Super", "This", "True", "Var", "While", "Eof"}

\* advance, stepping on at Eof as well
advance_past_eof(self) ==
    LET res == peek(self)
    IN  <<res[1], res[2], [self EXCEPT !.current = @ + 1]>>

advance(self) ==
    LET res == peek(self)
    IN  IF ~is_at_end(self)
        THEN <<res[1], res[2], [self EXCEPT !.current = @ + 1]>>
        ELSE res

check(self, token_type) ==
    IF is_at_end(self) THEN Ok(FALSE, self)
    ELSE LET t == peek(self)
         IN  IF ~IsOk(t) THEN t ELSE Ok(t[2].token_type = token_type, self)

consume(self, token_type, error) ==
    LET c == check(self, token_type)
    IN  IF ~IsOk(c) THEN c
        ELSE IF c[2] THEN advance(self)
        ELSE Err(error, self)

\* ParseError::<name>(self.previous()?.line()): an argument, built before
\* the call it is passed to
AtPrevious(self, name) ==
    LET p == previous(self)
    IN  IF ~IsOk(p) THEN p ELSE Ok(<<name, p[2].line>>, self)

\* self.consume(token_type, ParseError::<name>(self.previous()?.line()))
ConsumeAtPrevious(self, token_type, name) ==
    LET error == AtPrevious(self, name)
    IN  IF ~IsOk(error) THEN error ELSE consume(self, token_type, error[2])

RECURSIVE match_token_types(_, _)
match_token_types(self, token_types) ==
    IF token_types = <<>> THEN Ok(FALSE, self)
    ELSE LET c == check(self, Head(token_types))
             a == advance(self)
         IN  IF ~IsOk(c) THEN c
             ELSE IF c[2] THEN (IF ~IsOk(a) THEN a ELSE Ok(TRUE, a[3]))
             ELSE match_token_types(self, Tail(token_types))

SyncKeywords == {"Class", "For", "Fun", "If", "Print", "Return", "Var", "While"}

\* the while loop of synchronize; token_type is that of the last token taken
RECURSIVE SynchronizeLoop(_, _)
SynchronizeLoop(self, token_type) ==
    IF is_at_end(self) THEN Ok(Unit, self)
    ELSE IF token_type = "Semicolon" THEN Ok(Unit, self)
    ELSE IF token_type \in SyncKeywords THEN Ok(Unit, self)
    ELSE Bind({IF ~IsOk(t) THEN t ELSE SynchronizeLoop(t[3], t[2].token_type)
             : t \in {advance(self)}})

\* synchronize, taking no token
synchronize_stays(self) == Ok(Unit, self)

synchronize(self) ==
    Bind({IF ~IsOk(t) THEN t ELSE SynchronizeLoop(t[3], t[2].token_type)
        : t \in {advance(self)}})

\* self.method(), for the methods that parse a grammar rule
RECURSIVE Call(_, _)
RECURSIVE OrLoop(_, _), AndLoop(_, _), EqualityLoop(_, _), ComparisonLoop(_, _)
RECURSIVE TermLoop(_, _), FactorLoop(_, _), BlockLoop(_, _)

\* primary, lines 322-327: the literal of the String or Number just taken
PrimaryLiteral(self) ==
    Bind({IF ~IsOk(token) THEN token
          ELSE IF ~IsOk(error) THEN error
          ELSE IF IsSome(token[2].literal)
          THEN Ok(Literal(Unwrap(token[2].literal)), self)
          ELSE Err(<<"NoLiteralOnToken", error[2].line>>, self)
        : token \in {previous(self)}, error \in {peek(self)}})

\* primary, lines 331-334: the rest of a grouping, its `(` just taken
PrimaryGrouping(self) ==
    Bind({IF ~IsOk(expr) THEN expr ELSE
    Bind({IF ~IsOk(close) THEN close ELSE Ok(Grouping(expr[2]), close[3])
        : close \in {ConsumeAtPrevious(expr[3], "RightParen", "UnterminatedGrouping")}})
        : expr \in {Call("expression", self)}})

\* Highest level of precedence
primary(self) ==
    Bind({IF ~IsOk(f) THEN f
          ELSE IF f[2] THEN Ok(Literal(Bool(FALSE)), f[3])
          ELSE IF ~IsOk(t) THEN t
          ELSE IF t[2] THEN Ok(Literal(Bool(TRUE)), t[3])
          ELSE IF ~IsOk(n) THEN n
          ELSE IF n[2] THEN Ok(Literal(Nil), n[3])
          ELSE IF ~IsOk(l) THEN l
          ELSE IF l[2] THEN PrimaryLiteral(l[3])
          ELSE IF ~IsOk(i) THEN i
          ELSE IF i[2] THEN
              Bind({IF ~IsOk(name) THEN name ELSE Ok(Variable(name[2]), i[3])
                  : name \in {previous(i[3])}})
          ELSE IF ~IsOk(g) THEN g
          ELSE IF g[2] THEN PrimaryGrouping(g[3])
          ELSE Bind({IF ~IsOk(error) THEN error ELSE Err(error[2], self)
                   : error \in {AtPrevious(self, "ExpectedExpression")}})
        : f \in {match_token_types(self, <<"False">>)},
          t \in {match_token_types(self, <<"True">>)},
          n \in {match_token_types(self, <<"Nil">>)},
          l \in {match_token_types(self, <<"String", "Number">>)},
          i \in {match_token_types(self, <<"Identifier">>)},
          g \in {match_token_types(self, <<"LeftParen">>)}})

\* unary, taking a whole factor as its operand
unary_of_factor(self) ==
    Bind({IF ~IsOk(m) THEN m
          ELSE IF ~m[2] THEN Call("primary", self) ELSE
    Bind({IF ~IsOk(operator) THEN operator ELSE
    Bind({IF ~IsOk(right) THEN right ELSE Ok(Unary(operator[2], right[2]), right[3])
        : right \in {Call("factor", m[3])}})
        : operator \in {previous(m[3])}})
        : m \in {match_token_types(self, <<"Bang", "Minus">>)}})

unary(self) ==
    Bind({IF ~IsOk(m) THEN m
          ELSE IF ~m[2] THEN Call("primary", self) ELSE
    Bind({IF ~IsOk(operator) THEN operator ELSE
    Bind({IF ~IsOk(right) THEN right ELSE Ok(Unary(operator[2], right[2]), right[3])
        : right \in {Call("unary", m[3])}})
        : operator \in {previous(m[3])}})
        : m \in {match_token_types(self, <<"Bang", "Minus">>)}})

\* the while loop of factor; expr is what is parsed so far
FactorLoop(self, expr) ==
    Bind({IF ~IsOk(m) THEN m
          ELSE IF ~m[2] THEN Ok(expr, self) ELSE
    Bind({IF ~IsOk(operator) THEN operator ELSE
    Bind({IF ~IsOk(right) THEN right
          ELSE FactorLoop(right[3], Binary(expr, operator[2], right[2]))
        : right \in {Call("unary", m[3])}})
        : operator \in {previous(m[3])}})
        : m \in {match_token_types(self, <<"Slash", "Star">>)}})

factor(self) ==
    Bind({IF ~IsOk(expr) THEN expr ELSE FactorLoop(expr[3], expr[2])
        : expr \in {Call("unary", self)}})

\* TermLoop, taking the whole rest of the term as the right operand
TermLoop_right_nested(self, expr) ==
    Bind({IF ~IsOk(m) THEN m
          ELSE IF ~m[2] THEN Ok(expr, self) ELSE
    Bind({IF ~IsOk(operator) THEN operator ELSE
    Bind({IF ~IsOk(right) THEN right
          ELSE Ok(Binary(expr, operator[2], right[2]), right[3])
        : right \in {Call("term", m[3])}})
        : operator \in {previous(m[3])}})
        : m \in {match_token_types(self, <<"Minus", "Plus">>)}})

\* the while loop of term
TermLoop(self, expr) ==
    Bind({IF ~IsOk(m) THEN m
          ELSE IF ~m[2] THEN Ok(expr, self) ELSE
    Bind({IF ~IsOk(operator) THEN operator ELSE
    Bind({IF ~IsOk(right) THEN right
          ELSE TermLoop(right[3], Binary(expr, operator[2], right[2]))
        : right \in {Call("factor", m[3])}})
        : operator \in {previous(m[3])}})
        : m \in {match_token_types(self, <<"Minus", "Plus">>)}})

term(self) ==
    Bind({IF ~IsOk(expr) THEN expr ELSE TermLoop(expr[3], expr[2])
        : expr \in {Call("factor", self)}})

\* the while loop of comparison
ComparisonLoop(self, expr) ==
    Bind({IF ~IsOk(m) THEN m
          ELSE IF ~m[2] THEN Ok(expr, self) ELSE
    Bind({IF ~IsOk(operator) THEN operator ELSE
    Bind({IF ~IsOk(right) THEN right
          ELSE ComparisonLoop(right[3], Binary(expr, operator[2], right[2]))
        : right \in {Call("term", m[3])}})
        : operator \in {previous(m[3])}})
        : m \in {match_token_types(self, <<"Greater", "GreaterEqual", "Less", "LessEqual">>)}})

comparison(self) ==
    Bind({IF ~IsOk(expr) THEN expr ELSE ComparisonLoop(expr[3], expr[2])
        : expr \in {Call("term", self)}})

\* the while loop of equality
EqualityLoop(self, expr) ==
    Bind({IF ~IsOk(m) THEN m
          ELSE IF ~m[2] THEN Ok(expr, self) ELSE
    Bind({IF ~IsOk(operator) THEN operator ELSE
    Bind({IF ~IsOk(right) THEN right
          ELSE EqualityLoop(right[3], Binary(expr, operator[2], right[2]))
        : right \in {Call("comparison", m[3])}})
        : operator \in {previous(m[3])}})
        : m \in {match_token_types(self, <<"BangEqual", "EqualEqual">>)}})

equality(self) ==
    Bind({IF ~IsOk(expr) THEN expr ELSE EqualityLoop(expr[3], expr[2])
        : expr \in {Call("comparison", self)}})

\* AndLoop, making a Binary of the two operands
AndLoop_binary(self, expr) ==
    Bind({IF ~IsOk(m) THEN m
          ELSE IF ~m[2] THEN Ok(expr, self) ELSE
    Bind({IF ~IsOk(operator) THEN operator ELSE
    Bind({IF ~IsOk(right) THEN right
          ELSE AndLoop(right[3], Binary(expr, operator[2], right[2]))
        : right \in {Call("equality", m[3])}})
        : operator \in {previous(m[3])}})
        : m \in {match_token_types(self, <<"And">>)}})

\* the while loop of and
AndLoop(self, expr) ==
    Bind({IF ~IsOk(m) THEN m
          ELSE IF ~m[2] THEN Ok(expr, self) ELSE
    Bind({IF ~IsOk(operator) THEN operator ELSE
    Bind({IF ~IsOk(right) THEN right
          ELSE AndLoop(right[3], Logical(expr, operator[2], right[2]))
        : right \in {Call("equality", m[3])}})
        : operator \in {previous(m[3])}})
        : m \in {match_token_types(self, <<"And">>)}})

and(self) ==
    Bind({IF ~IsOk(expr) THEN expr ELSE AndLoop(expr[3], expr[2])
        : expr \in {Call("equality", self)}})

\* the while loop of or
OrLoop(self, expr) ==
    Bind({IF ~IsOk(m) THEN m
          ELSE IF ~m[2] THEN Ok(expr, self) ELSE
    Bind({IF ~IsOk(operator) THEN operator ELSE
    Bind({IF ~IsOk(right) THEN right
          ELSE OrLoop(right[3], Logical(expr, operator[2], right[2]))
        : right \in {Call("and", m[3])}})
        : operator \in {previous(m[3])}})
        : m \in {match_token_types(self, <<"Or">>)}})

or(self) ==
    Bind({IF ~IsOk(expr) THEN expr ELSE OrLoop(expr[3], expr[2])
        : expr \in {Call("and", self)}})

\* assignment, taking the value for the whole when the target is no Variable
assignment_any_target(self) ==
    Bind({IF ~IsOk(expr) THEN expr ELSE
    Bind({IF ~IsOk(m) THEN m
          ELSE IF ~m[2] THEN Ok(expr[2], m[3]) ELSE
    Bind({IF ~IsOk(value) THEN value
          ELSE IF expr[2][1] = "Variable" THEN Ok(Assign(expr[2][2], value[2]), value[3])
          ELSE Ok(value[2], value[3])
        : value \in {Call("assignment", m[3])}})
        : m \in {match_token_types(expr[3], <<"Equal">>)}})
        : expr \in {Call("or", self)}})

assignment(self) ==
    Bind({IF ~IsOk(expr) THEN expr ELSE
    Bind({IF ~IsOk(m) THEN m
          ELSE IF ~m[2] THEN Ok(expr[2], m[3]) ELSE
    Bind({IF ~IsOk(value) THEN value
          ELSE IF expr[2][1] = "Variable" THEN Ok(Assign(expr[2][2], value[2]), value[3])
          ELSE Err(<<"InvalidAssignmentTarget">>, value[3])
        : value \in {Call("assignment", m[3])}})
        : m \in {match_token_types(expr[3], <<"Equal">>)}})
        : expr \in {Call("or", self)}})

\* Lowest level of precedence
expression(self) == Call("assignment", self)

expression_statement(self) ==
    Bind({IF ~IsOk(expr) THEN expr ELSE
    Bind({IF ~IsOk(semi) THEN semi ELSE Ok(ExpressionStmt(expr[2]), semi[3])
        : semi \in {ConsumeAtPrevious(expr[3], "Semicolon", "UnterminatedExpressionStatement")}})
        : expr \in {Call("expression", self)}})

print_statement(self) ==
    Bind({IF ~IsOk(expr) THEN expr ELSE
    Bind({IF ~IsOk(semi) THEN semi ELSE Ok(PrintStmt(expr[2]), semi[3])
        : semi \in {ConsumeAtPrevious(expr[3], "Semicolon", "UnterminatedPrintStatement")}})
        : expr \in {Call("expression", self)}})

var_declaration(self) ==
    Bind({IF ~IsOk(name) THEN name ELSE
    Bind({IF ~IsOk(m) THEN m ELSE
    Bind({IF ~IsOk(initializer) THEN initializer ELSE
    Bind({IF ~IsOk(semi) THEN semi
          ELSE Ok(VarStmt(name[2], initializer[2]), semi[3])
        : semi \in {consume(initializer[3], "Semicolon",
                            <<"UnterminatedVarDeclaration", name[2].line>>)}})
        : initializer \in {IF m[2] THEN SomeOk(Call("expression", m[3])) ELSE Ok(None, m[3])}})
        : m \in {match_token_types(name[3], <<"Equal">>)}})
        : name \in {ConsumeAtPrevious(self, "Identifier", "ExpectedIdentifier")}})

\* if_statement, an else the inner if took going to the outer if instead
if_statement_else_of_outer(self) ==
    Bind({IF ~IsOk(open) THEN open ELSE
    Bind({IF ~IsOk(condition) THEN condition ELSE
    Bind({IF ~IsOk(close) THEN close ELSE
    Bind({IF ~IsOk(then_branch) THEN then_branch ELSE
    Bind({IF ~IsOk(m) THEN m ELSE
    Bind({IF ~IsOk(else_branch) THEN else_branch
          ELSE IF ~IsSome(else_branch[2]) /\ then_branch[2][1] = "If"
                  /\ IsSome(then_branch[2][4])
          THEN Ok(IfStmt(condition[2],
                         IfStmt(then_branch[2][2], then_branch[2][3], None),
                         then_branch[2][4]), else_branch[3])
          ELSE Ok(IfStmt(condition[2], then_branch[2], else_branch[2]), else_branch[3])
        : else_branch \in {IF m[2] THEN SomeOk(Call("statement", m[3])) ELSE Ok(None, m[3])}})
        : m \in {match_token_types(then_branch[3], <<"Else">>)}})
        : then_branch \in {Call("statement", close[3])}})
        : close \in {ConsumeAtPrevious(condition[3], "RightParen", "ExpectedRightParen")}})
        : condition \in {Call("expression", open[3])}})
        : open \in {ConsumeAtPrevious(self, "LeftParen", "ExprectedLeftParen")}})

if_statement(self) ==
    Bind({IF ~IsOk(open) THEN open ELSE
    Bind({IF ~IsOk(condition) THEN condition ELSE
    Bind({IF ~IsOk(close) THEN close ELSE
    Bind({IF ~IsOk(then_branch) THEN then_branch ELSE
    Bind({IF ~IsOk(m) THEN m ELSE
    Bind({IF ~IsOk(else_branch) THEN else_branch
          ELSE Ok(IfStmt(condition[2], then_branch[2], else_branch[2]), else_branch[3])
        : else_branch \in {IF m[2] THEN SomeOk(Call("statement", m[3])) ELSE Ok(None, m[3])}})
        : m \in {match_token_types(then_branch[3], <<"Else">>)}})
        : then_branch \in {Call("statement", close[3])}})
        : close \in {ConsumeAtPrevious(condition[3], "RightParen", "ExpectedRightParen")}})
        : condition \in {Call("expression", open[3])}})
        : open \in {ConsumeAtPrevious(self, "LeftParen", "ExprectedLeftParen")}})

while_statement(self) ==
    Bind({IF ~IsOk(open) THEN open ELSE
    Bind({IF ~IsOk(condition) THEN condition ELSE
    Bind({IF ~IsOk(close) THEN close ELSE
    Bind({IF ~IsOk(body) THEN body ELSE Ok(WhileStmt(condition[2], body[2]), body[3])
        : body \in {Call("statement", close[3])}})
        : close \in {ConsumeAtPrevious(condition[3], "RightParen", "ExpectedRightParen")}})
        : condition \in {Call("expression", open[3])}})
        : open \in {ConsumeAtPrevious(self, "LeftParen", "ExprectedLeftParen")}})

\* for_statement, lines 149-155: None, a var declaration or an expression
\* statement
ForInitializer(self) ==
    Bind({IF ~IsOk(s) THEN s
          ELSE IF s[2] THEN Ok(None, s[3])
          ELSE IF ~IsOk(v) THEN v
          ELSE IF v[2] THEN SomeOk(Call("var_declaration", v[3]))
          ELSE SomeOk(Call("expression_statement", self))
        : s \in {match_token_types(self, <<"Semicolon">>)},
          v \in {match_token_types(self, <<"Var">>)}})

\* for_statement, lines 157-166: the condition, `true` when left out, and `;`
ForCondition(self) ==
    Bind({IF ~IsOk(c) THEN c ELSE
    Bind({IF ~IsOk(condition) THEN condition ELSE
    Bind({IF ~IsOk(semi) THEN semi ELSE Ok(condition[2], semi[3])
        : semi \in {ConsumeAtPrevious(condition[3], "Semicolon", "ExpectedSemicolon")}})
        : condition \in {IF ~c[2] THEN Call("expression", self) ELSE Ok(Literal(Bool(TRUE)), self)}})
        : c \in {check(self, "Semicolon")}})

\* for_statement, lines 168-173: the increment, if any, and `)`
ForIncrement(self) ==
    Bind({IF ~IsOk(c) THEN c ELSE
    Bind({IF ~IsOk(increment) THEN increment ELSE
    Bind({IF ~IsOk(close) THEN close ELSE Ok(increment[2], close[3])
        : close \in {ConsumeAtPrevious(increment[3], "RightParen", "ExpectedRightParen")}})
        : increment \in {IF ~c[2] THEN SomeOk(Call("expression", self)) ELSE Ok(None, self)}})
        : c \in {check(self, "RightParen")}})

\* for_statement, a Block made whether or not there is an initializer, and
\* whether or not there is an increment
ForDesugar_always_blocks(initializer, condition, increment, body) ==
    LET stepped == BlockStmt(<<body>> \o (IF IsSome(increment)
                                         THEN <<ExpressionStmt(Unwrap(increment))>>
                                         ELSE <<>>))
        loop == WhileStmt(condition, stepped)
    IN  BlockStmt((IF IsSome(initializer) THEN <<Unwrap(initializer)>> ELSE <<>>)
                      \o <<loop>>)

\* for_statement, lines 180-190: the while loop the clauses and the body make
ForDesugar(initializer, condition, increment, body) ==
    LET stepped == IF IsSome(increment)
                   THEN BlockStmt(<<body, ExpressionStmt(Unwrap(increment))>>)
                   ELSE body
        loop == WhileStmt(condition, stepped)
    IN  IF IsSome(initializer) THEN BlockStmt(<<Unwrap(initializer), loop>>) ELSE loop

for_statement(self) ==
    Bind({IF ~IsOk(open) THEN open ELSE
    Bind({IF ~IsOk(initializer) THEN initializer ELSE
    Bind({IF ~IsOk(condition) THEN condition ELSE
    Bind({IF ~IsOk(increment) THEN increment ELSE
    Bind({IF ~IsOk(body) THEN body
          ELSE Ok(ForDesugar(initializer[2], condition[2], increment[2], body[2]), body[3])
        : body \in {Call("statement", increment[3])}})
        : increment \in {ForIncrement(condition[3])}})
        : condition \in {ForCondition(initializer[3])}})
        : initializer \in {ForInitializer(open[3])}})
        : open \in {ConsumeAtPrevious(self, "LeftParen", "ExprectedLeftParen")}})

\* the while loop of block; stmts is what is parsed so far
BlockLoop(self, stmts) ==
    Bind({IF ~IsOk(c) THEN c
          ELSE IF ~c[2] /\ ~is_at_end(self) THEN
              Bind({IF ~IsOk(decl) THEN decl
                    ELSE BlockLoop(decl[3], Append(stmts, decl[2]))
                  : decl \in {Call("declaration", self)}})
          ELSE
              Bind({IF ~IsOk(close) THEN close ELSE Ok(stmts, close[3])
                  : close \in {ConsumeAtPrevious(self, "RightBrace", "UnterminatedBlock")}})
        : c \in {check(self, "RightBrace")}})

block(self) == BlockLoop(self, <<>>)

statement(self) ==
    Bind({IF ~IsOk(p) THEN p
          ELSE IF p[2] THEN Call("print_statement", p[3])
          ELSE IF ~IsOk(w) THEN w
          ELSE IF w[2] THEN Call("while_statement", w[3])
          ELSE IF ~IsOk(f) THEN f
          ELSE IF f[2] THEN Call("for_statement", f[3])
          ELSE IF ~IsOk(b) THEN b
          ELSE IF b[2] THEN
              Bind({IF ~IsOk(stmts) THEN stmts ELSE Ok(BlockStmt(stmts[2]), stmts[3])
                  : stmts \in {Call("block", b[3])}})
          ELSE IF ~IsOk(i) THEN i
          ELSE IF i[2] THEN Call("if_statement", i[3])
          ELSE Call("expression_statement", self)
        : p \in {match_token_types(self, <<"Print">>)},
          w \in {match_token_types(self, <<"While">>)},
          f \in {match_token_types(self, <<"For">>)},
          b \in {match_token_types(self, <<"LeftBrace">>)},
          i \in {match_token_types(self, <<"If">>)}})

declaration(self) ==
    Bind({IF ~IsOk(v) THEN v
          ELSE IF v[2] THEN Call("var_declaration", v[3])
          ELSE Call("statement", self)
        : v \in {match_token_types(self, <<"Var">>)}})

Call(method, self) ==
    CASE method = "expression" -> expression(self)
      [] method = "assignment" -> assignment(self)
      [] method = "or" -> or(self)
      [] method = "and" -> and(self)
      [] method = "equality" -> equality(self)
      [] method = "comparison" -> comparison(self)
      [] method = "term" -> term(self)
      [] method = "factor" -> factor(self)
      [] method = "unary" -> unary(self)
      [] method = "primary" -> primary(self)
      [] method = "declaration" -> declaration(self)
      [] method = "statement" -> statement(self)
      [] method = "block" -> block(self)
      [] method = "var_declaration" -> var_declaration(self)
      [] method = "expression_statement" -> expression_statement(self)
      [] method = "print_statement" -> print_statement(self)
      [] method = "while_statement" -> while_statement(self)
      [] method = "for_statement" -> for_statement(self)
      [] method = "if_statement" -> if_statement(self)

(***************************************************************************)
(* Scanner (src/src/scanner.rs).  The source is a sequence of characters,  *)
(* each a string of one character; they are ASCII, so that the index of a  *)
(* character (chars().nth) and its byte offset (len, get) are the same     *)
(* number.  A method taking &mut self is an operator of                    *)
(* self = [source, tokens, start, current, line, had_error], had_error     *)
(* being the local of scan_tokens, and returns <<"Ok", value, self>> or    *)
(* <<"Err", error, self>>.  A Literal is modelled by the Value it stands   *)
(* for: Literal::True by Bool(TRUE), Literal::Nil by Nil.                  *)
(***************************************************************************)
ScannerNew(source) ==
    [source |-> source, tokens |-> <<>>, start |-> 0, current |-> 0, line |-> 1,
     had_error |-> FALSE]

\* no scan_tokens() is running
NoScanner == ScannerNew(<<>>)

\* no Expression is being printed
NothingPrinted == original = None /\ printed = None /\ reparsed = None /\ values = None

\* char::is_numeric and char::is_alphabetic, on the characters of the model
NumericChars == {"0", "1", "2", "3", "4", "5", "6", "7", "8", "9"}
AlphabeticChars ==
    {"a", "b", "c", "d", "e", "f", "g", "h", "i", "j", "k", "l", "m", "n", "o", "p",
     "q", "r", "s", "t", "u", "v", "w", "x", "y", "z", "H", "W", "T", "C", "M"}
is_numeric(c) == c \in NumericChars
is_alphabetic(c) == c \in AlphabeticChars
is_alphanumeric(c) == is_alphabetic(c) \/ is_numeric(c)

\* the String the characters make
RECURSIVE Concat(_)
Concat(chars) == IF chars = <<>> THEN "" ELSE Head(chars) \o Concat(Tail(chars))

\* str::parse::<f64> of digits, or of digits, a dot and digits
DigitValue(c) == CHOOSE n \in 0..9 : NatToStr(n) = c
RECURSIVE DigitsValue(_)
DigitsValue(chars) ==
    IF chars = <<>> THEN 0
    ELSE 10 * DigitsValue(SubSeq(chars, 1, Len(chars) - 1)) + DigitValue(chars[Len(chars)])
parse_f64(chars) ==
    LET dots == {i \in DOMAIN chars : chars[i] = "."}
    IN  IF dots = {} THEN F64(DigitsValue(chars), 1)
        ELSE LET dot == CHOOSE i \in dots : TRUE
                 int == SubSeq(chars, 1, dot - 1)
                 frac == SubSeq(chars, dot + 1, Len(chars))
             IN  F64(DigitsValue(int \o frac), 10 ^ Len(frac))

scan_is_at_end(self) == self.current >= Len(self.source)

\* called after a digit was taken: the source is not empty
can_peek_next(self) == self.current < Len(self.source) - 1

CharAt(self, index) ==
    IF index < Len(self.source) THEN Ok(self.source[index + 1], self)
    ELSE Err(<<"CharacterAccessError", self.line>>, self)

scan_peek(self) == CharAt(self, self.current)
peek_next(self) == CharAt(self, self.current + 1)

scan_advance(self) ==
    LET res == scan_peek(self)
    IN  <<res[1], res[2], [self EXCEPT !.current = @ + 1]>>

match_advance(self, expected) ==
    IF scan_is_at_end(self) THEN Ok(FALSE, self)
    ELSE LET c == scan_peek(self)
         IN  IF ~IsOk(c) THEN c
             ELSE IF c[2] # expected THEN Ok(FALSE, self)
             ELSE Ok(TRUE, [self EXCEPT !.current = @ + 1])

\* self.source.get(from..to)
SourceGet(self, from, to) ==
    IF from <= to /\ to <= Len(self.source)
    THEN Ok(SubSeq(self.source, from + 1, to), self)
    ELSE Err(<<"CharacterAccessError", self.line>>, self)

get_lexeme_text(self) ==
    LET text == SourceGet(self, self.start, self.current)
    IN  IF ~IsOk(text) THEN text ELSE Ok(Concat(text[2]), self)

AddToken(self, token_type, literal) ==
    LET lexeme_text == get_lexeme_text(self)
    IN  IF ~IsOk(lexeme_text) THEN lexeme_text
        ELSE Ok(Unit, [self EXCEPT !.tokens =
                           Append(@, Token(token_type, lexeme_text[2], literal, self.line))])

add_token(self, token_type) == AddToken(self, token_type, None)
add_token_literal(self, token_type, literal) == AddToken(self, token_type, Some(literal))

\* the while loop of the `//` arm of scan_token
RECURSIVE CommentLoop(_)
CommentLoop(self) ==
    IF scan_is_at_end(self) THEN Ok(Unit, self)
    ELSE Bind({IF ~IsOk(c) THEN c
               ELSE IF c[2] = "\n" THEN Ok(Unit, self)
               ELSE Bind({IF ~IsOk(a) THEN a ELSE CommentLoop(a[3])
                        : a \in {scan_advance(self)}})
             : c \in {scan_peek(self)}})

\* the while loop of handle_string
RECURSIVE StringLoop(_)
StringLoop(self) ==
    IF scan_is_at_end(self) THEN Ok(Unit, self)
    ELSE Bind({IF ~IsOk(c) THEN c
               ELSE IF c[2] = "\"" THEN Ok(Unit, self)
               ELSE Bind({IF ~IsOk(a) THEN a ELSE StringLoop(a[3])
                        : a \in {scan_advance(IF c[2] = "\n"
                                              THEN [self EXCEPT !.line = @ + 1]
                                              ELSE self)}})
             : c \in {scan_peek(self)}})

\* handle_string, the Token carrying the line the string begins on
handle_string_first_line(self) ==
    Bind({IF ~IsOk(loop) THEN loop
          ELSE IF scan_is_at_end(loop[3])
          THEN Err(<<"UnterminatedString", loop[3].line>>, loop[3])
          ELSE Bind({IF ~IsOk(close) THEN close ELSE
               Bind({IF ~IsOk(value) THEN value
                     ELSE Bind({IF ~IsOk(added) THEN added
                                ELSE Ok(Unit, [added[3] EXCEPT !.line = close[3].line])
                              : added \in {add_token_literal([close[3] EXCEPT !.line = self.line],
                                                             "String",
                                                             String(Concat(value[2])))}})
                   : value \in {SourceGet(close[3], close[3].start + 1,
                                          close[3].current - 1)}})
                   : close \in {scan_advance(loop[3])}})
        : loop \in {StringLoop(self)}})

handle_string(self) ==
    Bind({IF ~IsOk(loop) THEN loop
          ELSE IF scan_is_at_end(loop[3])
          THEN Err(<<"UnterminatedString", loop[3].line>>, loop[3])
          ELSE Bind({IF ~IsOk(close) THEN close ELSE
               Bind({IF ~IsOk(value) THEN value
                     ELSE add_token_literal(close[3], "String", String(Concat(value[2])))
                   : value \in {SourceGet(close[3], close[3].start + 1,
                                          close[3].current - 1)}})
                   : close \in {scan_advance(loop[3])}})
        : loop \in {StringLoop(self)}})

\* while !self.is_at_end() && self.peek()?.is_numeric()
RECURSIVE NumericLoop(_)
NumericLoop(self) ==
    IF scan_is_at_end(self) THEN Ok(Unit, self)
    ELSE Bind({IF ~IsOk(c) THEN c
               ELSE IF ~is_numeric(c[2]) THEN Ok(Unit, self)
               ELSE Bind({IF ~IsOk(a) THEN a ELSE NumericLoop(a[3])
                        : a \in {scan_advance(self)}})
             : c \in {scan_peek(self)}})

\* handle_number, lines 256-265: a dot that a digit follows, and the digits
FractionalPart(self) ==
    IF scan_is_at_end(self) THEN Ok(Unit, self)
    ELSE Bind({IF ~IsOk(c) THEN c
               ELSE IF c[2] # "." \/ ~can_peek_next(self) THEN Ok(Unit, self)
               ELSE Bind({IF ~IsOk(n) THEN n
                          ELSE IF ~is_numeric(n[2]) THEN Ok(Unit, self)
                          ELSE Bind({IF ~IsOk(a) THEN a ELSE NumericLoop(a[3])
                                   : a \in {scan_advance(self)}})
                        : n \in {peek_next(self)}})
             : c \in {scan_peek(self)}})

handle_number(self) ==
    Bind({IF ~IsOk(int) THEN int ELSE
    Bind({IF ~IsOk(frac) THEN frac ELSE
    Bind({IF ~IsOk(lexeme) THEN lexeme
          ELSE add_token_literal(frac[3], "Number", Number(parse_f64(lexeme[2])))
        : lexeme \in {SourceGet(frac[3], frac[3].start, frac[3].current)}})
        : frac \in {FractionalPart(int[3])}})
        : int \in {NumericLoop(self)}})

match_keyword(lexeme) ==
    CASE lexeme = "and" -> Some("And") [] lexeme = "class" -> Some("Class")
      [] lexeme = "else" -> Some("Else") [] lexeme = "false" -> Some("False")
      [] lexeme = "for" -> Some("For") [] lexeme = "fun" -> Some("Fun")
      [] lexeme = "if" -> Some("If") [] lexeme = "nil" -> Some("Nil")
      [] lexeme = "or" -> Some("Or") [] lexeme = "print" -> Some("Print")
      [] lexeme = "return" -> Some("Return") [] lexeme = "super" -> Some("Super")
      [] lexeme = "this" -> Some("This") [] lexeme = "true" -> Some("True")
      [] lexeme = "var" -> Some("Var") [] lexeme = "while" -> Some("While")
      [] OTHER -> None

\* while !self.is_at_end() && self.peek()?.is_alphanumeric()
RECURSIVE AlphanumericLoop(_)
AlphanumericLoop(self) ==
    IF scan_is_at_end(self) THEN Ok(Unit, self)
    ELSE Bind({IF ~IsOk(c) THEN c
               ELSE IF ~is_alphanumeric(c[2]) THEN Ok(Unit, self)
               ELSE Bind({IF ~IsOk(a) THEN a ELSE AlphanumericLoop(a[3])
                        : a \in {scan_advance(self)}})
             : c \in {scan_peek(self)}})

handle_identifier(self) ==
    Bind({IF ~IsOk(loop) THEN loop ELSE
    Bind({IF ~IsOk(text) THEN text
          ELSE Bind({IF ~IsSome(token_type) THEN add_token(loop[3], "Identifier")
                     ELSE IF Unwrap(token_type) = "True"
                     THEN add_token_literal(loop[3], "True", Bool(TRUE))
                     ELSE IF Unwrap(token_type) = "False"
                     THEN add_token_literal(loop[3], "False", Bool(FALSE))
                     ELSE IF Unwrap(token_type) = "Nil"
                     THEN add_token_literal(loop[3], "Nil", Nil)
                     ELSE add_token(loop[3], Unwrap(token_type))
                   : token_type \in {match_keyword(text[2])}})
        : text \in {get_lexeme_text(loop[3])}})
        : loop \in {AlphanumericLoop(self)}})

\* the arms of scan_token for the tokens of one character
SingleCharacter ==
    [c \in {"(", ")", "{", "}", ",", ".", "-", "+", ";", "*"} |->
        CASE c = "(" -> "LeftParen" [] c = ")" -> "RightParen"
          [] c = "{" -> "LeftBrace" [] c = "}" -> "RightBrace"
          [] c = "," -> "Comma" [] c = "." -> "Dot" [] c = "-" -> "Minus"
          [] c = "+" -> "Plus" [] c = ";" -> "Semicolon" [] OTHER -> "Star"]

\* the arms for ! = < >, alone and before `=`
OneOrTwo(self, alone, before_equal) ==
    Bind({IF ~IsOk(m) THEN m
          ELSE IF m[2] THEN add_token(m[3], before_equal)
          ELSE add_token(m[3], alone)
        : m \in {match_advance(self, "=")}})

\* the match of scan_token on the character taken
ScanChar(self, c) ==
    CASE c \in {" ", "\r", "\t"} -> Ok(Unit, self)
      [] c = "\n" -> Ok(Unit, [self EXCEPT !.line = @ + 1])
      [] c \in DOMAIN SingleCharacter -> add_token(self, SingleCharacter[c])
      [] c = "!" -> OneOrTwo(self, "Bang", "BangEqual")
      [] c = "=" -> OneOrTwo(self, "Equal", "EqualEqual")
      [] c = "<" -> OneOrTwo(self, "Less", "LessEqual")
      [] c = ">" -> OneOrTwo(self, "Greater", "GreaterEqual")
      [] c = "/" ->
            Bind({IF ~IsOk(m) THEN m
                  ELSE IF m[2] THEN CommentLoop(m[3])
                  ELSE add_token(m[3], "Slash")
                : m \in {match_advance(self, "/")}})
      [] c = "\"" -> handle_string(self)
      [] OTHER ->
            IF is_numeric(c) THEN handle_number(self)
            ELSE IF is_alphabetic(c) THEN handle_identifier(self)
            ELSE Err(<<"UnexpectedCharacter", c, self.line>>, self)

scan_token(self) ==
    Bind({IF ~IsOk(c) THEN c ELSE ScanChar(c[3], c[2]) : c \in {scan_advance(self)}})

\* scan_tokens, the loop ending at the first error
ScanIteration_stops(self) ==
    Bind({IF IsOk(r) THEN r
          ELSE Err(r[2], [r[3] EXCEPT !.had_error = TRUE,
                                      !.current = Len(self.source)])
        : r \in {scan_token([self EXCEPT !.start = self.current])}})

\* scan_tokens, lines 51-55: one iteration of the loop; an error sets
\* had_error and is handed back to be printed
ScanIteration(self) ==
    Bind({IF IsOk(r) THEN r ELSE Err(r[2], [r[3] EXCEPT !.had_error = TRUE])
        : r \in {scan_token([self EXCEPT !.start = self.current])}})

\* scan_tokens, lines 58-66
ScanEnd(self) ==
    LET tokens == Append(self.tokens, Token("Eof", "", None, self.line))
    IN  IF self.had_error THEN Err(<<"HadError">>, [self EXCEPT !.tokens = tokens])
        ELSE Ok(tokens, [self EXCEPT !.tokens = tokens])

\* scan_tokens, lines 51-56: the loop, run to its end
RECURSIVE ScanLoop(_)
ScanLoop(self) ==
    IF scan_is_at_end(self) THEN self
    ELSE Bind({ScanLoop(r[3]) : r \in {ScanIteration(self)}})

\* scan_tokens(source): Ok(tokens) or Err(HadError)
scan_tokens(source) ==
    Bind({<<r[1], r[2]>> : r \in {ScanEnd(ScanLoop(ScannerNew(source)))}})

\* impl Display for Token, of src/src/token.rs
TokenDisplay(token) ==
    token.token_type \o " " \o token.lexeme \o " "
        \o (IF IsSome(token.literal) THEN ValueDisplay(Unwrap(token.literal)) ELSE "None")

(***************************************************************************)
(* impl Display for Expression (src/src/obj/expression.rs), the String     *)
(* written being the sequence of its characters.                           *)
(***************************************************************************)
\* the lexemes and the display forms of the values that are printed
Texts ==
    {<<>>, <<"1">>, <<"2">>, <<"3">>, <<"1", ".", "5">>, <<"a">>, <<"a", " ", "b">>,
     <<"t", "r", "u", "e">>, <<"f", "a", "l", "s", "e">>, <<"n", "i", "l">>,
     <<"x">>, <<"+">>, <<"-">>, <<"*">>, <<"/">>, <<"!">>, <<"!", "=">>,
     <<"=", "=">>, <<"<">>, <<"<", "=">>, <<">">>, <<">", "=">>, <<"a", "n", "d">>,
     <<"o", "r">>}

\* the characters of a String
Chars(text) == CHOOSE chars \in Texts : Concat(chars) = text

RECURSIVE ExprDisplay(_)

\* Display for Expression, a Unary written with its operand first
ExprDisplay_operand_first(expr) ==
    CASE expr[1] = "Binary" ->
            <<"(">> \o Chars(expr[3].lexeme) \o <<" ">> \o ExprDisplay(expr[2])
                \o <<" ">> \o ExprDisplay(expr[4]) \o <<")">>
      [] expr[1] = "Grouping" ->
            <<"(", "g", "r", "o", "u", "p", " ">> \o ExprDisplay(expr[2]) \o <<")">>
      [] expr[1] = "Literal" -> Chars(ValueDisplay(expr[2]))
      [] expr[1] = "Unary" ->
            <<"(">> \o ExprDisplay(expr[3]) \o <<" ">> \o Chars(expr[2].lexeme) \o <<")">>
      [] expr[1] = "Variable" ->
            <<"(", "v", "a", "r", " ">> \o Chars(expr[2].lexeme) \o <<")">>
      [] expr[1] = "Assign" ->
            <<"(", "=", " ">> \o Chars(expr[2].lexeme) \o <<" ">>
                \o ExprDisplay(expr[3]) \o <<")">>
      [] expr[1] = "Logical" ->
            <<"(", "l", "o", "g", "i", "c", "a", "l", " ">> \o ExprDisplay(expr[2])
                \o <<" ">> \o Chars(expr[3].lexeme) \o <<" ">> \o ExprDisplay(expr[4])
                \o <<")">>

ExprDisplay(expr) ==
    CASE expr[1] = "Binary" ->
            <<"(">> \o Chars(expr[3].lexeme) \o <<" ">> \o ExprDisplay(expr[2])
                \o <<" ">> \o ExprDisplay(expr[4]) \o <<")">>
      [] expr[1] = "Grouping" ->
            <<"(", "g", "r", "o", "u", "p", " ">> \o ExprDisplay(expr[2]) \o <<")">>
      [] expr[1] = "Literal" -> Chars(ValueDisplay(expr[2]))
      [] expr[1] = "Unary" ->
            <<"(">> \o Chars(expr[2].lexeme) \o <<" ">> \o ExprDisplay(expr[3]) \o <<")">>
      [] expr[1] = "Variable" ->
            <<"(", "v", "a", "r", " ">> \o Chars(expr[2].lexeme) \o <<")">>
      [] expr[1] = "Assign" ->
            <<"(", "=", " ">> \o Chars(expr[2].lexeme) \o <<" ">>
                \o ExprDisplay(expr[3]) \o <<")">>
      [] expr[1] = "Logical" ->
            <<"(", "l", "o", "g", "i", "c", "a", "l", " ">> \o ExprDisplay(expr[2])
                \o <<" ">> \o Chars(expr[3].lexeme) \o <<" ">> \o ExprDisplay(expr[4])
                \o <<")">>

(***************************************************************************)
(* The statement vectors interpret() is called with.                       *)
(***************************************************************************)
SeqsUpTo(S, n) == UNION {[1..k -> S] : k \in 0..n}

x == IdentTok("x")
y == IdentTok("y")

\* var x = 1;  x = 3;  print x;  var y = x;  print y;
\* if (x) x = 3; else print x;
Atoms ==
    {VarStmt(x, Some(Literal(Num(1)))),
     ExpressionStmt(Assign(x, Literal(Num(3)))),
     PrintStmt(Variable(x)),
     VarStmt(y, Some(Variable(x))),
     PrintStmt(Variable(y)),
     IfStmt(Variable(x), ExpressionStmt(Assign(x, Literal(Num(3)))),
            Some(PrintStmt(Variable(x))))}

\* what the innermost block holds
Bodies ==
    {<<ExpressionStmt(Assign(x, Literal(Num(2))))>>,
     <<VarStmt(x, Some(Literal(Num(2)))), PrintStmt(Variable(x))>>,
     <<ExpressionStmt(Assign(y, Literal(Num(2)))), PrintStmt(Variable(x))>>}

\* body inside d nested blocks
RECURSIVE Nest(_, _)
Nest(d, body) == IF d = 0 THEN body ELSE <<BlockStmt(Nest(d - 1, body))>>

\* the same, the outermost block declaring its own x first
NestDecl(d, body) ==
    <<BlockStmt(<<VarStmt(x, None)>> \o Nest(d - 1, body) \o <<PrintStmt(Variable(x))>>)>>

Blocks ==
    {Nest(d, body)[1] : d \in 1..MaxDepth, body \in Bodies}
        \cup {NestDecl(MaxDepth, body)[1] : body \in Bodies}

Programs == SeqsUpTo(Atoms \cup Blocks, MaxStmts) \ {<<>>}

(***************************************************************************)
(* interpret(statements): one action for each arm of execute_statement.    *)
(***************************************************************************)
Becomes(s) ==
    /\ kont' = s.kont
    /\ envs' = s.envs
    /\ environment' = s.environment
    /\ output' = s.output
    /\ raised' = s.raised
    /\ result' = s.result

Starts(s) ==
    /\ kont = s.kont
    /\ envs = s.envs
    /\ environment = s.environment
    /\ output = s.output
    /\ raised = s.raised
    /\ result = s.result

\* interpret(statements) called on its own: no parse() is running, and no
\* usize is subtracted, so one build stands for both
InitInterp ==
    /\ program \in Programs
    /\ pc = "interpret"
    /\ Starts(InterpreterNew(program))
    /\ parser = [tokens |-> <<>>, current |-> 0]
    /\ statements = <<>> /\ had_error = FALSE /\ stderr = <<>> /\ parsed = None
    /\ overflow_checks = FALSE
    /\ scanner = NoScanner /\ scanned = None
    /\ NothingPrinted

Block == pc = "interpret" /\ Executing(IState, "Block")
    /\ Becomes(ExecBlock(IState)) /\ UNCHANGED <<program, parse_vars, scan_vars, print_vars, overflow_checks, pc>>

BlockExit == pc = "interpret" /\ result = "none" /\ kont # <<>>
    /\ Head(kont)[1] = "block"
    /\ (raised # "none" \/ ~HasNext(Head(kont)))
    /\ Becomes(ExitBlock(IState)) /\ UNCHANGED <<program, parse_vars, scan_vars, print_vars, overflow_checks, pc>>

Expression == pc = "interpret" /\ Executing(IState, "Expression")
    /\ Becomes(ExecExpression(IState)) /\ UNCHANGED <<program, parse_vars, scan_vars, print_vars, overflow_checks, pc>>

IfThenElse == pc = "interpret" /\ Executing(IState, "If")
    /\ Becomes(ExecIf(IState)) /\ UNCHANGED <<program, parse_vars, scan_vars, print_vars, overflow_checks, pc>>

PrintLn == pc = "interpret" /\ Executing(IState, "Print")
    /\ Becomes(ExecPrint(IState)) /\ UNCHANGED <<program, parse_vars, scan_vars, print_vars, overflow_checks, pc>>

VarDecl == pc = "interpret" /\ Executing(IState, "Var")
    /\ Becomes(ExecVar(IState)) /\ UNCHANGED <<program, parse_vars, scan_vars, print_vars, overflow_checks, pc>>

Return == pc = "interpret" /\ result = "none" /\ kont # <<>>
    /\ Head(kont)[1] = "interpret"
    /\ (raised # "none" \/ ~HasNext(Head(kont)))
    /\ Becomes(InterpretReturn(IState)) /\ UNCHANGED <<program, parse_vars, scan_vars, print_vars, overflow_checks, pc>>

NextInterp ==
    Block \/ BlockExit \/ Expression \/ IfThenElse \/ PrintLn \/ VarDecl \/ Return

SpecInterp == InitInterp /\ [][NextInterp]_vars

(***************************************************************************)
(* The token vectors parse() is called with: what scan_tokens makes of a   *)
(* source, given here as its lexemes.                                      *)
(***************************************************************************)
\* longest source, in tokens, of those made of CoreWords in every way
MaxTokens == 4
\* most malformed statements in a source made of them
MaxMalformed == 2

Punctuation ==
    [lexeme \in {"(", ")", "{", "}", "-", "+", ";", "*", "/", "!", "!=", "=", "==",
                 "<", "<=", ">", ">="} |->
        CASE lexeme = "(" -> "LeftParen" [] lexeme = ")" -> "RightParen"
          [] lexeme = "{" -> "LeftBrace" [] lexeme = "}" -> "RightBrace"
          [] lexeme = "-" -> "Minus" [] lexeme = "+" -> "Plus"
          [] lexeme = ";" -> "Semicolon" [] lexeme = "*" -> "Star"
          [] lexeme = "/" -> "Slash" [] lexeme = "!" -> "Bang"
          [] lexeme = "!=" -> "BangEqual" [] lexeme = "=" -> "Equal"
          [] lexeme = "==" -> "EqualEqual" [] lexeme = "<" -> "Less"
          [] lexeme = "<=" -> "LessEqual" [] lexeme = ">" -> "Greater"
          [] OTHER -> "GreaterEqual"]

\* match_keyword
Keywords ==
    [lexeme \in {"and", "class", "else", "false", "for", "fun", "if", "nil", "or",
                 "print", "return", "super", "this", "true", "var", "while"} |->
        CASE lexeme = "and" -> "And" [] lexeme = "class" -> "Class"
          [] lexeme = "else" -> "Else" [] lexeme = "false" -> "False"
          [] lexeme = "for" -> "For" [] lexeme = "fun" -> "Fun"
          [] lexeme = "if" -> "If" [] lexeme = "nil" -> "Nil"
          [] lexeme = "or" -> "Or" [] lexeme = "print" -> "Print"
          [] lexeme = "return" -> "Return" [] lexeme = "super" -> "Super"
          [] lexeme = "this" -> "This" [] lexeme = "true" -> "True"
          [] lexeme = "var" -> "Var" [] OTHER -> "While"]

Digits == [lexeme \in {"0", "1", "2", "3", "4", "5", "6", "7", "8", "9"} |->
              CHOOSE n \in 0..9 : NatToStr(n) = lexeme]

\* the Token scan_token adds for a lexeme
TokenOf(lexeme) ==
    IF lexeme \in DOMAIN Punctuation THEN Tok(Punctuation[lexeme], lexeme)
    ELSE IF lexeme \in DOMAIN Digits THEN NumTok(Digits[lexeme])
    ELSE IF lexeme \in {"true", "false", "nil"}
    THEN Token(Keywords[lexeme], lexeme,
               Some(CASE lexeme = "true" -> Bool(TRUE) [] lexeme = "false" -> Bool(FALSE)
                      [] OTHER -> Nil), 1)
    ELSE IF lexeme \in DOMAIN Keywords THEN Tok(Keywords[lexeme], lexeme)
    ELSE IdentTok(lexeme)

EofToken == Token("Eof", "", None, 1)

\* scan_tokens: the Token of each lexeme and then Eof
Tokens(lexemes) == [i \in 1..Len(lexemes) |-> TokenOf(lexemes[i])] \o <<EofToken>>

RECURSIVE Flatten(_)
Flatten(seqs) == IF seqs = <<>> THEN <<>> ELSE Head(seqs) \o Flatten(Tail(seqs))

\* every source of up to MaxTokens of these is parsed
CoreWords == {"print", "var", ";", "x", "1", "=", ")"}

\* every lexeme as the first token of a source, alone and before `;`
FirstTokenSources ==
    UNION {{<<lexeme>>, <<lexeme, ";">>, <<lexeme, "x", ";">>} :
              lexeme \in DOMAIN Punctuation \cup DOMAIN Keywords \cup {"x", "1"}}

\* statements that do not parse, each ended by `;`
Malformed ==
    {<<"print", ";">>, <<"var", ";">>, <<"x", "=", ";">>, <<"1", "+", ";">>,
     <<"(", "1", ";">>, <<"print", "1", "2", ";">>, <<"print", "var", ";">>,
     <<")", ";">>}

\* the sources made of up to MaxMalformed of them
MalformedSources == SeqsUpTo(Malformed, MaxMalformed) \ {<<>>}

\* the operators of equality, comparison, term and factor, by level
BinaryLevel ==
    [lexeme \in {"!=", "=="} |-> 1] @@ [lexeme \in {">", ">=", "<", "<="} |-> 2]
        @@ [lexeme \in {"-", "+"} |-> 3] @@ [lexeme \in {"/", "*"} |-> 4]

Operands == {<<"a", "b", "c">>, <<"1", "2", "3">>}

\* print a o1 b o2 c;
Flat(w, o1, o2) == <<"print", w[1], o1, w[2], o2, w[3], ";">>
\* print (a o1 b) o2 c;
GroupLeft(w, o1, o2) == <<"print", "(", w[1], o1, w[2], ")", o2, w[3], ";">>
\* print a o1 (b o2 c);
GroupRight(w, o1, o2) == <<"print", w[1], o1, "(", w[2], o2, w[3], ")", ";">>

OperatorSources ==
    UNION {{Flat(w, o1, o2), GroupLeft(w, o1, o2), GroupRight(w, o1, o2)} :
              w \in Operands, o1 \in DOMAIN BinaryLevel, o2 \in DOMAIN BinaryLevel}

\* sources with a block and with both branches of an if
StatementSources ==
    {<<"var", "x", "=", "1", ";", "{", "var", "x", "=", "2", ";", "print", "x", ";", "}",
       "print", "x", ";">>,
     <<"var", "x", ";", "if", "(", "x", ")", "print", "1", ";", "else", "x", "=", "2", ";",
       "if", "(", "x", ")", "print", "x", ";">>}

\* a = b = c;
ChainedAssignment == <<"a", "=", "b", "=", "c", ";">>

\* assignments to what is no Variable: a literal, a Grouping, a Binary, a
\* Unary, a Logical, and an assignment whose value is one of these
InvalidTargetSources ==
    {<<"1", "=", "2", ";">>,
     <<"(", "a", ")", "=", "1", ";">>,
     <<"a", "+", "b", "=", "c", ";">>,
     <<"a", "==", "b", "=", "c", ";">>,
     <<"-", "a", "=", "1", ";">>,
     <<"a", "or", "b", "=", "c", ";">>,
     <<"nil", "=", "1", ";">>,
     <<"a", "=", "1", "=", "2", ";">>}

AssignmentSources == {ChainedAssignment} \cup InvalidTargetSources

\* x = a == b and c or d;
AssignedLogical == <<"x", "=", "a", "==", "b", "and", "c", "or", "d", ";">>
\* a o1 b o2 c;  with o1, o2 among and, or
LogicalPair(o1, o2) == <<"a", o1, "b", o2, "c", ";">>
\* a and b == c;  a == b or c;
LogicalSources ==
    {AssignedLogical, <<"a", "and", "b", "==", "c", ";">>, <<"a", "==", "b", "or", "c", ";">>}
        \cup {LogicalPair(o1, o2) : o1 \in {"and", "or"}, o2 \in {"and", "or"}}

\* u a o b;  with u a unary operator and o a binary one
UnaryFirst(u, o) == <<u, "a", o, "b", ";">>
\* a o u b;
UnarySecond(u, o) == <<"a", o, u, "b", ";">>
\* u1 u2 a;
UnaryPair(u1, u2) == <<u1, u2, "a", ";">>
UnarySources ==
    {UnaryFirst(u, o) : u \in {"-", "!"}, o \in DOMAIN BinaryLevel}
        \cup {UnarySecond(u, o) : u \in {"-", "!"}, o \in DOMAIN BinaryLevel}
        \cup {UnaryPair(u1, u2) : u1 \in {"-", "!"}, u2 \in {"-", "!"}}

\* if (c1) if (c2) print 1; else print 2;
DanglingElse(c1, c2) ==
    <<"if", "(", c1, ")", "if", "(", c2, ")", "print", "1", ";", "else", "print", "2", ";">>
DanglingElseSources == {DanglingElse(c1, c2) : c1 \in {"true", "false"}, c2 \in {"true", "false"}}

\* a loop whose condition is false from the start, and one that counts x
\* from 0 up to 2
WhileFalse == <<"while", "(", "false", ")", "print", "1", ";", "print", "2", ";">>
WhileCounts ==
    <<"var", "x", "=", "0", ";", "while", "(", "x", "<", "2", ")",
      "{", "print", "x", ";", "x", "=", "x", "+", "1", ";", "}", "print", "x", ";">>
WhileSources == {WhileFalse, WhileCounts}

\* print 1 + ; foo bar var x = 2 ;  and  1 2 print 3 ;
SyncExample ==
    <<"print", "1", "+", ";", "foo", "bar", "var", "x", "=", "2", ";">>
SyncPrint == <<"1", "2", "print", "3", ";">>
SynchronizeSources == {SyncExample, SyncPrint}

\* for ( init cond ; incr ) print i ;  each clause one of the ways to write
\* it, the empty one among them; init carries its own `;`
ForInits == {<<";">>, <<"var", "i", "=", "0", ";">>, <<"i", "=", "0", ";">>}
ForConds == {<<>>, <<"i", "<", "2">>}
ForIncrs == {<<>>, <<"i", "=", "i", "+", "1">>}
ForLoop(init, cond, incr) ==
    <<"for", "(">> \o init \o cond \o <<";">> \o incr \o <<")", "print", "i", ";">>
ForSources == {ForLoop(init, cond, incr) : init \in ForInits, cond \in ForConds, incr \in ForIncrs}

\* blocks well formed but for one statement of theirs
BlockMalformedFirst == <<"{", "print", ";", "print", "1", ";", "}">>
BlockMalformedLast == <<"{", "print", "1", ";", "print", ";", "}">>
BlockMalformedMiddle ==
    <<"{", "var", "x", "=", "1", ";", "x", "=", ";", "print", "x", ";", "}", "print", "2", ";">>
BlockMalformedSources == {BlockMalformedFirst, BlockMalformedLast, BlockMalformedMiddle}

Sources ==
    SeqsUpTo(CoreWords, MaxTokens)
        \cup FirstTokenSources
        \cup {Flatten(s) : s \in MalformedSources}
        \cup OperatorSources \cup StatementSources
        \cup AssignmentSources \cup LogicalSources \cup UnarySources
        \cup DanglingElseSources \cup WhileSources \cup SynchronizeSources
        \cup ForSources \cup BlockMalformedSources

(***************************************************************************)
(* parse(tokens): one action for each way round its while loop, and the    *)
(* hand-over of what it returns to interpret().                            *)
(***************************************************************************)
InitParse ==
    /\ \E lexemes \in Sources : parser = ParserNew(Tokens(lexemes))
    /\ statements = <<>> /\ had_error = FALSE /\ stderr = <<>> /\ parsed = None
    /\ overflow_checks \in BOOLEAN
    /\ pc = "parse"
    /\ program = <<>>
    /\ kont = <<>> /\ envs = <<>> /\ environment = 0 /\ output = <<>>
    /\ raised = "none" /\ result = "none"
    /\ scanner = NoScanner /\ scanned = None
    /\ NothingPrinted

Parsing == pc = "parse" /\ parsed = None /\ ~is_at_end(parser)

\* Ok(stmt) => statements.push(stmt)
ParseDeclaration == Parsing
    /\ \E stmt \in {declaration(parser)} :
           /\ IsOk(stmt)
           /\ statements' = Append(statements, stmt[2])
           /\ parser' = stmt[3]
    /\ UNCHANGED <<had_error, stderr, parsed, program, interp_vars, scan_vars, print_vars, overflow_checks, pc>>

\* Err(e) => the error is printed, had_error set and the parser synchronized;
\* the `?` on synchronize returns its error
ParseError == Parsing
    /\ \E e \in {declaration(parser)} :
           /\ e[1] = "Err"
           /\ stderr' = Append(stderr, e[2])
           /\ had_error' = TRUE
           /\ \E s \in {synchronize(e[3])} :
                  /\ parser' = s[3]
                  /\ parsed' = (IF IsOk(s) THEN parsed ELSE <<s[1], s[2]>>)
    /\ UNCHANGED <<statements, program, interp_vars, scan_vars, print_vars, overflow_checks, pc>>

\* the thread panics inside declaration(): parse() does not return
ParsePanic == Parsing
    /\ \E e \in {declaration(parser)} :
           /\ e[1] = "Panic"
           /\ parsed' = <<"Panic", e[2]>>
           /\ parser' = e[3]
    /\ UNCHANGED <<statements, had_error, stderr, program, interp_vars, scan_vars, print_vars, overflow_checks, pc>>

\* parse(), lines 32-36
ParseReturn == pc = "parse" /\ parsed = None /\ is_at_end(parser)
    /\ parsed' = (IF had_error THEN <<"Err", <<"HadError">>>> ELSE <<"Ok", statements>>)
    /\ UNCHANGED <<parser, statements, had_error, stderr, program, interp_vars,
                   scan_vars, print_vars, overflow_checks, pc>>

\* interpret(statements) on the statements parse() returned
Interpret == pc = "parse" /\ parsed[1] = "Ok"
    /\ pc' = "interpret"
    /\ program' = parsed[2]
    /\ Becomes(InterpreterNew(parsed[2]))
    /\ UNCHANGED <<parse_vars, scan_vars, print_vars, overflow_checks>>

NextParse ==
    \/ ParseDeclaration \/ ParseError \/ ParsePanic \/ ParseReturn \/ Interpret
    \/ NextInterp

SpecParse == InitParse /\ [][NextParse]_vars

\* parse() on its own, its loop running on until it returns: the thread is
\* not stopped from outside
NextParseLoop == ParseDeclaration \/ ParseError \/ ParsePanic \/ ParseReturn

SpecParseLoop == InitParse /\ [][NextParseLoop]_vars /\ WF_vars(NextParseLoop)

(***************************************************************************)
(* The sources scan_tokens() is called with: the sources of the tests of   *)
(* scanner.rs, every keyword alone and between other lexemes, words that   *)
(* are no keywords, and every source of up to MaxChars characters of       *)
(* ScanChars.                                                              *)
(***************************************************************************)
MaxChars == 4

ScanChars == {"a", "1", ".", "\"", "\n", "/", "=", "@"}

\* the source of the test hello_world_scan
hello_world_source ==
    <<"p", "r", "i", "n", "t", " ", "\"", "H", "e", "l", "l", "o", ",", " ", "W",
      "o", "r", "l", "d", "!", "\"", ";">>

\* the source of the test keyword_scan
keyword_source ==
    <<"v", "a", "r", " ", "x", " ", "=", " ", "t", "r", "u", "e", ";", "\r", "\n",
      "c", "l", "a", "s", "s", " ", "T", "e", "s", "t", "C", "l", "a", "s", "s", " ",
      "{", "\r", "\n", " ", " ", " ", " ", "t", "e", "s", "t", "M", "e", "t", "h",
      "o", "d", "(", "s", ")", " ", "{", "\r", "\n", " ", " ", " ", " ", " ", " ",
      " ", " ", "p", "r", "i", "n", "t", " ", "s", ";", "\r", "\n", " ", " ", " ",
      " ", "}", "\r", "\n", "}">>

\* the source of the test number_scan
number_source ==
    <<"1", "2", "3", " ", "4", "5", ".", "6", "7">>

\* the source of the test string_scan
string_source ==
    <<"\"", "H", "e", "l", "l", "o", ",", " ", "W", "o", "r", "l", "d", "!", "\"">>

\* the source of the test comment_scan
comment_source ==
    <<"/", "/", " ", "T", "h", "i", "s", " ", "i", "s", " ", "a", " ", "c", "o", "m",
      "m", "e", "n", "t", "\n", "v", "a", "r", " ", "x", " ", "=", " ", "4", "2",
      ";">>

TestSources ==
    {hello_world_source, keyword_source, number_source, string_source, comment_source}

\* the characters of the keywords, and of words that are no keywords
KeywordChars ==
    {<<"a", "n", "d">>,
     <<"c", "l", "a", "s", "s">>,
     <<"e", "l", "s", "e">>,
     <<"f", "a", "l", "s", "e">>,
     <<"f", "o", "r">>,
     <<"f", "u", "n">>,
     <<"i", "f">>,
     <<"n", "i", "l">>,
     <<"o", "r">>,
     <<"p", "r", "i", "n", "t">>,
     <<"r", "e", "t", "u", "r", "n">>,
     <<"s", "u", "p", "e", "r">>,
     <<"t", "h", "i", "s">>,
     <<"t", "r", "u", "e">>,
     <<"v", "a", "r">>,
     <<"w", "h", "i", "l", "e">>}

WordChars ==
    {<<"n", "i", "l", "e">>,
     <<"t", "r", "u", "t", "h">>,
     <<"x", "1">>,
     <<"f", "a", "l", "s">>,
     <<"o", "r", "c", "h", "i", "d">>,
     <<"i", "f", "f">>,
     <<"T">>}

\* a word alone, and after `x = ` and before `;` on a second line
WordSources ==
    UNION {{word, <<"x", " ", "=", "\n">> \o word \o <<";">>}
           : word \in KeywordChars \cup WordChars}

\* two unexpected characters with tokens between and after them
two_errors_source ==
    <<"v", "a", "r", " ", "#", "x", " ", "=", " ", "1", ";", "\n", "$", " ", "p",
      "r", "i", "n", "t", " ", "x", ";">>

\* an unexpected character, and an unterminated string two lines later
unterminated_source ==
    <<"x", " ", "=", " ", "@", ";", "\n", "p", "r", "i", "n", "t", " ", "\"", "a",
      "b", "\n", "c", "d">>

\* a string of two lines, and tokens after it
multiline_string_source ==
    <<"p", "r", "i", "n", "t", " ", "\"", "a", "\n", "b", "\"", " ", "+", " ", "1",
      ";", "\n", "x">>

ErrorSources == {two_errors_source, unterminated_source, multiline_string_source}

ScanSources == SeqsUpTo(ScanChars, MaxChars) \cup TestSources \cup WordSources \cup ErrorSources

(***************************************************************************)
(* run() of main.rs on a source: scan_tokens(), one iteration of its loop  *)
(* a step, then the tokens printed, or the error returned by `?`.          *)
(***************************************************************************)
InitScan ==
    /\ \E source \in ScanSources : scanner = ScannerNew(source)
    /\ scanned = None
    /\ overflow_checks \in BOOLEAN
    /\ pc = "scan"
    /\ parser = ParserNew(<<>>)
    /\ statements = <<>> /\ had_error = FALSE /\ stderr = <<>> /\ parsed = None
    /\ program = <<>>
    /\ kont = <<>> /\ envs = <<>> /\ environment = 0 /\ output = <<>>
    /\ raised = "none" /\ result = "none"
    /\ NothingPrinted

Scanning == pc = "scan" /\ scanned = None /\ ~scan_is_at_end(scanner)

\* scan_token() returned Ok
ScanToken == Scanning
    /\ \E r \in {ScanIteration(scanner)} :
           /\ IsOk(r)
           /\ scanner' = r[3]
    /\ UNCHANGED <<scanned, program, interp_vars, parse_vars, print_vars, overflow_checks, pc>>

\* Err(e) => eprintln!("{}", e); had_error = true
ScanError == Scanning
    /\ \E e \in {ScanIteration(scanner)} :
           /\ e[1] = "Err"
           /\ stderr' = Append(stderr, e[2])
           /\ scanner' = e[3]
    /\ UNCHANGED <<scanned, parser, statements, had_error, parsed, program, interp_vars,
                   print_vars, overflow_checks, pc>>

\* scan_tokens(), lines 58-66
ScanReturn == pc = "scan" /\ scanned = None /\ scan_is_at_end(scanner)
    /\ \E r \in {ScanEnd(scanner)} :
           /\ scanned' = <<r[1], r[2]>>
           /\ scanner' = r[3]
    /\ UNCHANGED <<program, interp_vars, parse_vars, print_vars, overflow_checks, pc>>

\* run(), lines 87-91: for token in tokens { println!("{}", token) }; Ok(())
RunPrint == pc = "scan" /\ scanned[1] = "Ok" /\ result = "none"
    /\ output' = output \o [i \in DOMAIN scanned[2] |-> TokenDisplay(scanned[2][i])]
    /\ result' = "Ok"
    /\ UNCHANGED <<kont, envs, environment, raised, program, parse_vars, scan_vars,
                   print_vars, overflow_checks, pc>>

\* run(), line 85: the `?` on scan_tokens(source)
RunError == pc = "scan" /\ scanned[1] = "Err" /\ result = "none"
    /\ result' = scanned[2][1]
    /\ UNCHANGED <<kont, envs, environment, output, raised, program, parse_vars,
                   scan_vars, print_vars, overflow_checks, pc>>

NextScan == ScanToken \/ ScanError \/ ScanReturn \/ RunPrint \/ RunError

SpecScan == InitScan /\ [][NextScan]_vars

(***************************************************************************)
(* An Expression printed and read again: the source is scanned and parsed  *)
(* by expression(), the Expression printed by Display, the text scanned by *)
(* scan_tokens() and parsed by expression(), and both Expressions          *)
(* evaluated in a new Interpreter.  The sources: an operand, a unary        *)
(* operator before a literal, a binary or logical operator between two     *)
(* operands, a grouping, an assignment, and some nestings of these.        *)
(***************************************************************************)
PrintOperands ==
    {<<"1">>, <<"2">>, <<"1", ".", "5">>, <<"\"", "a", "\"">>, <<"\"", "\"">>,
     <<"\"", "a", " ", "b", "\"">>, <<"t", "r", "u", "e">>,
     <<"f", "a", "l", "s", "e">>, <<"n", "i", "l">>, <<"x">>}

PrintUnary == {<<"-">>, <<"!">>}

PrintBinary ==
    {<<"+">>, <<"-">>, <<"*">>, <<"/">>, <<"<">>, <<"<", "=">>, <<">">>,
     <<">", "=">>, <<"=", "=">>, <<"!", "=">>, <<"a", "n", "d">>, <<"o", "r">>}

\* the operands of the unary operators: the literals
PrintLiterals == PrintOperands \ {<<"x">>}

PrintNested ==
    {<<"1", " ", "+", " ", "2", " ", "*", " ", "3">>,
     <<"(", "1", " ", "+", " ", "2", ")", " ", "*", " ", "3">>,
     <<"x", " ", "=", " ", "1", " ", "+", " ", "2">>,
     <<"1", " ", "<", " ", "2", " ", "=", "=", " ", "t", "r", "u", "e">>}

PrintSources ==
    PrintOperands
    \cup {op \o a : op \in PrintUnary, a \in PrintLiterals}
    \cup {a \o <<" ">> \o op \o <<" ">> \o b
          : a \in PrintOperands, op \in PrintBinary, b \in PrintOperands}
    \cup {<<"(">> \o a \o <<")">> : a \in PrintOperands}
    \cup {<<"x", " ", "=", " ">> \o a : a \in PrintOperands}
    \cup PrintNested

InitPrint ==
    /\ \E source \in PrintSources : parser = ParserNew(scan_tokens(source)[2])
    /\ NothingPrinted
    /\ scanner = NoScanner /\ scanned = None
    /\ statements = <<>> /\ had_error = FALSE /\ stderr = <<>> /\ parsed = None
    /\ overflow_checks \in BOOLEAN
    /\ pc = "print"
    /\ program = <<>>
    /\ kont = <<>> /\ envs = <<>> /\ environment = 0 /\ output = <<>>
    /\ raised = "none" /\ result = "none"

\* the Expression the source is: expression() on its tokens
PrintOriginal == pc = "print" /\ original = None
    /\ \E r \in {Call("expression", parser)} :
           /\ original' = <<r[1], r[2]>>
           /\ parser' = r[3]
    /\ UNCHANGED <<printed, reparsed, values, statements, had_error, stderr, parsed,
                   program, interp_vars, scan_vars, overflow_checks, pc>>

\* format!("{}", expression)
PrintDisplay == pc = "print" /\ original[1] = "Ok" /\ printed = None
    /\ printed' = Some(ExprDisplay(original[2]))
    /\ UNCHANGED <<original, reparsed, values, program, interp_vars, parse_vars,
                   scan_vars, overflow_checks, pc>>

\* scan_tokens(text)
PrintScan == pc = "print" /\ printed # None /\ scanned = None
    /\ scanned' = scan_tokens(Unwrap(printed))
    /\ UNCHANGED <<scanner, program, interp_vars, parse_vars, print_vars, overflow_checks,
                   pc>>

\* expression() on the tokens of the text; what it returned and where the
\* parser stood
PrintReparse == pc = "print" /\ scanned[1] = "Ok" /\ reparsed = None
    /\ reparsed' = Call("expression", ParserNew(scanned[2]))
    /\ UNCHANGED <<original, printed, values, program, interp_vars, parse_vars,
                   scan_vars, overflow_checks, pc>>

\* evaluate_expression in a new Interpreter: the Value, or the error
EvaluateNew(expr) ==
    LET r == evaluate_expression((1 :> NewEnvironment(None)), 1, expr)
    IN  <<r[1], r[2]>>

PrintEvaluate == pc = "print" /\ reparsed[1] = "Ok" /\ values = None
    /\ values' = Some(<<EvaluateNew(original[2]), EvaluateNew(reparsed[2])>>)
    /\ UNCHANGED <<original, printed, reparsed, program, interp_vars, parse_vars,
                   scan_vars, overflow_checks, pc>>

NextPrint == PrintOriginal \/ PrintDisplay \/ PrintScan \/ PrintReparse \/ PrintEvaluate

SpecPrint == InitPrint /\ [][NextPrint]_vars

(***************************************************************************)
(* evaluate_expression on its own: interpret() is called with              *)
(*     var x = 1; var r = <expression>;                                    *)
(* so that the value of the expression, of whatever type, is what r is     *)
(* bound to, and what the expression did to x can be seen.                 *)
(***************************************************************************)
\* the operands: a literal of every variant, for Number and String of
\* several payloads, and (1 / 0) and (0 / 0), whose values are inf and NaN
InfOperand == Grouping(Binary(Literal(Num(1)), TokenOf("/"), Literal(Num(0))))
NaNOperand == Grouping(Binary(Literal(Num(0)), TokenOf("/"), Literal(Num(0))))
EvalOperands ==
    {Literal(v) : v \in {Nil, Bool(TRUE), Bool(FALSE), Num(0), Num(1), Num(2),
                         String(""), String("a"), String("1")}}
        \cup {InfOperand, NaNOperand}

target == IdentTok("r")

\* the right operands of a Logical: one that fails, one that assigns, one
\* that reads, one that does nothing
RightOperands ==
    {Variable(y), Assign(x, Literal(Num(2))), Variable(x), Literal(String("a"))}
\* the left operands: an operand, an assignment of one, and one that fails
LeftOperands ==
    EvalOperands \cup {Assign(x, left) : left \in EvalOperands} \cup {Variable(y)}

LogicalExprs ==
    {Logical(left, TokenOf(op), right) :
        left \in LeftOperands, op \in {"or", "and"}, right \in RightOperands}

\* !operand, !!operand, and ! of an operand that fails
NotExprs ==
    {Unary(TokenOf("!"), operand) : operand \in EvalOperands \cup {Variable(y)}}
        \cup {Unary(TokenOf("!"), Unary(TokenOf("!"), operand)) : operand \in EvalOperands}

\* left == right and left != right, for every pair of operands
EqualityExprs ==
    {Binary(left, TokenOf(op), right) :
        left \in EvalOperands, op \in {"==", "!="}, right \in EvalOperands}

\* left + right, for every pair of operands
PlusExprs ==
    {Binary(left, TokenOf("+"), right) : left \in EvalOperands, right \in EvalOperands}

\* the operators that take Numbers only
NumberOperators == {"-", "/", "*", ">", ">=", "<", "<="}
\* left op right for every pair of operands, and -operand
NumberExprs ==
    {Binary(left, TokenOf(op), right) :
        left \in EvalOperands, op \in NumberOperators, right \in EvalOperands}
        \cup {Unary(TokenOf("-"), operand) : operand \in EvalOperands}

\* the operators whose operands have to be Numbers, or for + Strings too
TypedOperators == NumberOperators \cup {"+"}
\* (x = 2), an operand that assigns
Assigns == Grouping(Assign(x, Literal(Num(2))))
\* the operands evaluated in order: left ones that fail, are of the wrong
\* type or assign, before right ones that assign, read or fail
OrderExprs ==
    {Binary(left, TokenOf(op), right) :
        left \in {Variable(y), Literal(Nil), Literal(String("a")), Literal(Bool(TRUE)), Assigns},
        op \in TypedOperators,
        right \in {Assigns, Variable(x), Variable(y)}}

EvalExprs ==
    LogicalExprs \cup NotExprs \cup EqualityExprs \cup PlusExprs \cup NumberExprs
        \cup OrderExprs

EvalPrograms ==
    {<<VarStmt(x, Some(Literal(Num(1)))), VarStmt(target, Some(expr))>> : expr \in EvalExprs}

InitEval ==
    /\ program \in EvalPrograms
    /\ pc = "interpret"
    /\ Starts(InterpreterNew(program))
    /\ parser = [tokens |-> <<>>, current |-> 0]
    /\ statements = <<>> /\ had_error = FALSE /\ stderr = <<>> /\ parsed = None
    /\ overflow_checks = FALSE
    /\ scanner = NoScanner /\ scanned = None
    /\ NothingPrinted

NextEval == VarDecl \/ Return

SpecEval == InitEval /\ [][NextEval]_vars

(***************************************************************************)
(* Properties of interpret()                                               *)
(***************************************************************************)
\* the blocks in progress, innermost first, and what each will restore
BlockFrames(k) == SelectSeq(k, LAMBDA f : f[1] = "block")
PrevEnvs(k) == [i \in 1..Len(BlockFrames(k)) |-> BlockFrames(k)[i][3]]

\* the scopes of the active chain that own name, as positions in the chain
Owners(h, addr, name) ==
    {i \in DOMAIN Chain(h, addr) : name \in DOMAIN h[Chain(h, addr)[i]].values}
\* the innermost scope of the active chain that owns name
InnermostOwner(h, addr, name) ==
    Chain(h, addr)[CHOOSE i \in Owners(h, addr, name) : \A j \in Owners(h, addr, name) : i <= j]

\* the program starts with the statements of prefix
StartsWith(prefix) ==
    Len(program) >= Len(prefix) /\ SubSeq(program, 1, Len(prefix)) = prefix
\* between two top-level statements, n of them executed
AtTop(n) ==
    /\ result = "none" /\ raised = "none"
    /\ Len(kont) = 1 /\ Len(program) - Len(Head(kont)[2]) = n

\* var x = 1; { ..{ x = 2; }.. } print x;   with d nested blocks
AssignInBlocks(d) ==
    <<VarStmt(x, Some(Literal(Num(1))))>>
        \o Nest(d, <<ExpressionStmt(Assign(x, Literal(Num(2))))>>)
        \o <<PrintStmt(Variable(x))>>

\* C1: an assignment inside a block, at any depth, to a name defined only
\* in an enclosing scope changes the enclosing binding, and the new value is
\* the one read after the block: var x = 1; { x = 2; } print x; prints 2.
C1_AssignInBlockPersists ==
    \A d \in 1..MaxDepth :
        StartsWith(AssignInBlocks(d)) =>
            /\ AtTop(2) => envs[1].values["x"] = Num(2)
            /\ AtTop(3) \/ result # "none" => Len(output) >= 1 /\ output[1] = "2"

C1_Witness ==
    /\ program = AssignInBlocks(MaxDepth)
    /\ result = "Ok" /\ output = <<"2">>

\* C2: a Block, whether its statements succeed or one fails, leaves active
\* the Environment that was active before it: the scopes enclosing the
\* active one are those the blocks in progress will restore, in order, and
\* with no block in progress the global Environment is the active one.
C2_BlockRestoresEnvironment ==
    /\ Tail(Chain(envs, environment)) = PrevEnvs(kont)
    /\ BlockFrames(kont) = <<>> => environment = 1 /\ DOMAIN envs = {1}

\* var x = 1; { { y = 2; print x; } }  fails two blocks deep
FailsInBlocks(d) ==
    <<VarStmt(x, Some(Literal(Num(1))))>>
        \o Nest(d, <<ExpressionStmt(Assign(y, Literal(Num(2)))), PrintStmt(Variable(x))>>)

C2_Witness ==
    /\ StartsWith(FailsInBlocks(MaxDepth))
    /\ result = "UndefinedVariable" /\ environment = 1 /\ output = <<>>

\* heap h2 is heap h1 but for the binding of name in the scope at a
SameBut(h1, h2, a, name) ==
    /\ DOMAIN h2 = DOMAIN h1
    /\ \A b \in DOMAIN h1 \ {a} : h2[b] = h1[b]
    /\ h2[a].enclosing = h1[a].enclosing
    /\ DOMAIN h2[a].values \ {name} = DOMAIN h1[a].values \ {name}
    /\ \A n \in DOMAIN h1[a].values \ {name} : h2[a].values[n] = h1[a].values[n]

\* what a literal or a variable evaluates to in the active chain, if anything
SimpleValue(expr) ==
    IF expr[1] = "Literal" THEN Some(expr[2])
    ELSE IF Owners(envs, environment, expr[2].lexeme) = {} THEN None
    ELSE Some(envs[InnermostOwner(envs, environment, expr[2].lexeme)].values[expr[2].lexeme])
IsSimple(expr) == expr[1] \in {"Literal", "Variable"}

\* var x = 1; { var x = 2; print x; } print x;
ShadowInBlock ==
    <<VarStmt(x, Some(Literal(Num(1)))),
      BlockStmt(<<VarStmt(x, Some(Literal(Num(2)))), PrintStmt(Variable(x))>>),
      PrintStmt(Variable(x))>>

\* a step that executes a Var statement defines the name in the active
\* scope to the initializer's value (Nil without one) and changes nothing else
VarDefinesInnermost ==
    Executing(IState, "Var") =>
        LET stmt == NextStmt(IState)
            value == IF IsSome(stmt[3]) THEN SimpleValue(Unwrap(stmt[3])) ELSE Some(Nil)
        IN  IF value = None
            THEN raised' = "UndefinedVariable" /\ envs' = envs
            ELSE /\ raised' = "none"
                 /\ environment' = environment
                 /\ stmt[2].lexeme \in DOMAIN envs'[environment].values
                 /\ envs'[environment].values[stmt[2].lexeme] = Unwrap(value)
                 /\ SameBut(envs, envs', environment, stmt[2].lexeme)

\* C3: a Var declaration defines the name in the innermost scope only: it
\* succeeds, overwrites a binding of that name in that scope, and leaves the
\* enclosing scopes as they are: var x = 1; { var x = 2; print x; } print x;
\* prints 2 then 1.
C3_VarShadowsInCurrentScope ==
    /\ [](StartsWith(ShadowInBlock) /\ (AtTop(3) \/ result # "none")
            => Len(output) >= 2 /\ SubSeq(output, 1, 2) = <<"2", "1">>)
    /\ [][VarDefinesInnermost]_vars

C3_Witness ==
    /\ program = ShadowInBlock /\ result = "Ok" /\ output = <<"2", "1">>

\* a redeclaration in the scope that already owns the name, with a new value
C3_WitnessOverwrite ==
    /\ AtTop(3) /\ program[2] = ExpressionStmt(Assign(x, Literal(Num(3))))
    /\ program[3] = VarStmt(x, Some(Literal(Num(1))))
    /\ envs[1].values["x"] = Num(1)

\* a step that executes `name = literal;`
AssignsInnermostOwner ==
    Executing(IState, "Expression") /\ NextStmt(IState)[2][1] = "Assign"
            /\ NextStmt(IState)[2][3][1] = "Literal" =>
        LET name == NextStmt(IState)[2][2].lexeme
            value == NextStmt(IState)[2][3][2]
        IN  IF Owners(envs, environment, name) = {}
            THEN raised' = "UndefinedVariable" /\ envs' = envs
            ELSE LET a == InnermostOwner(envs, environment, name)
                 IN  /\ raised' = "none"
                     /\ name \in DOMAIN envs'[a].values
                     /\ envs'[a].values[name] = value
                     /\ SameBut(envs, envs', a, name)

\* C4: assign changes one binding, that of the innermost scope of the chain
\* that owns the name, and nothing else; when no scope owns it, it fails
\* with UndefinedVariable and changes no scope.
C4_AssignInnermostOwner == [][AssignsInnermostOwner]_vars

\* x is owned by the global scope and by a block; a deeper block assigned it
C4_Witness ==
    /\ Len(Chain(envs, environment)) = 3
    /\ "x" \notin DOMAIN envs[environment].values
    /\ "x" \in DOMAIN envs[Chain(envs, environment)[2]].values
    /\ envs[Chain(envs, environment)[2]].values["x"] = Num(2)
    /\ envs[1].values = [x |-> Num(1)]

\* an assignment to a name no scope owns has failed, inside a block
C4_WitnessUndefined ==
    /\ raised = "UndefinedVariable" /\ Len(Chain(envs, environment)) >= 2
    /\ \A a \in DOMAIN envs : "y" \notin DOMAIN envs[a].values

\* a step that executes `print name;`
ReadsInnermostOwner ==
    Executing(IState, "Print") /\ NextStmt(IState)[2][1] = "Variable" =>
        LET value == SimpleValue(NextStmt(IState)[2])
        IN  /\ envs' = envs
            /\ IF value = None
               THEN raised' = "UndefinedVariable" /\ output' = output
               ELSE raised' = "none" /\ output' = Append(output, ValueDisplay(Unwrap(value)))

\* C5: get returns the value of the innermost scope of the chain that owns
\* the name, UndefinedVariable exactly when none does, and changes no scope.
C5_GetInnermostOwner == [][ReadsInnermostOwner]_vars

\* the block's x hides the global x: the block printed its own
C5_Witness ==
    /\ Len(Chain(envs, environment)) = 2
    /\ envs[environment].values = [x |-> Num(2)]
    /\ envs[1].values = [x |-> Num(1)]
    /\ output = <<"2">>

C5_WitnessUndefined ==
    /\ raised = "UndefinedVariable" /\ program[1] = PrintStmt(Variable(x))

\* output is a prefix of what it becomes
OutputGrows == Len(output') >= Len(output) /\ SubSeq(output', 1, Len(output)) = output

\* the top-level statements are taken in order, one at a time, never while
\* an error propagates; an error only unwinds, and comes out as the result
InOrderUntilError ==
    /\ result = "none"
    /\ OutputGrows
    /\ LET rest == kont[Len(kont)][2]
           rest2 == IF kont' = <<>> THEN rest ELSE kont'[Len(kont')][2]
       IN  /\ rest = SubSeq(program, Len(program) - Len(rest) + 1, Len(program))
           /\ rest2 = rest \/ (raised = "none" /\ Len(kont) = 1 /\ rest2 = Tail(rest))
    /\ raised # "none" =>
           /\ kont' = Tail(kont) /\ output' = output
           /\ \A a \in DOMAIN envs' : a \in DOMAIN envs /\ envs'[a] = envs[a]
           /\ result' \in {"none", raised}
           /\ result' = "none" <=> kont' # <<>>
    /\ result' \notin {"none", "Ok"} => raised = result'
    /\ result' = "Ok" => raised = "none" /\ kont = <<InterpretFrame(<<>>)>>

\* C6: interpret executes the top-level statements in order; once one fails
\* no later statement is executed and that error is returned; what was
\* printed and bound before the failure is kept.
C6_StopsAtFirstError == [][InOrderUntilError]_vars

\* { var x = 2; print x; } print x; var x = 1;
FailsBeforeLast ==
    Nest(1, <<VarStmt(x, Some(Literal(Num(2)))), PrintStmt(Variable(x))>>)
        \o <<PrintStmt(Variable(x)), VarStmt(x, Some(Literal(Num(1))))>>

\* the block printed 2, the second statement failed, the third never ran
C6_Witness ==
    /\ StartsWith(FailsBeforeLast)
    /\ result = "UndefinedVariable" /\ output = <<"2">>
    /\ DOMAIN envs = {1} /\ DOMAIN envs[1].values = {}

(***************************************************************************)
(* Properties of parse()                                                   *)
(***************************************************************************)
\* the lexemes of the tokens parse() was called on, Eof left out
Lexemes == [i \in 1..Len(parser.tokens) - 1 |-> parser.tokens[i].lexeme]
\* parse() was called on the tokens of this source
Source(lexemes) == Lexemes = lexemes /\ parser.tokens = Tokens(lexemes)
\* parse() is over: it returned, or its thread panicked
ParseEnded == parsed # None

HadErrorResult == <<"Err", <<"HadError">>>>

\* C7: parse returns the statements exactly when no declaration failed, and
\* the HadError failure, without any statement, when at least one failed.
\* stderr has one entry for each declaration that returned an error.
C7_StatementsIffNoFailure ==
    ParseEnded =>
        \/ parsed = <<"Ok", statements>> /\ stderr = <<>> /\ ~had_error
        \/ parsed = HadErrorResult /\ had_error

\* C8: a source of k malformed statements, each ended by `;`, has exactly k
\* errors reported, one for each, and parse then fails with HadError.
C8_OneErrorPerMalformed ==
    \A src \in MalformedSources :
        ParseEnded /\ Source(Flatten(src)) =>
            Len(stderr) = Len(src) /\ parsed = HadErrorResult

\* C9: whatever the tokens before Eof, parse neither reports nor returns a
\* TokenAccessError: no index it reads is outside the token vector.
C9_NoTokenAccessError ==
    /\ \A i \in DOMAIN stderr : stderr[i][1] # "TokenAccessError"
    /\ ParseEnded /\ parsed[1] = "Err" => parsed[2][1] # "TokenAccessError"

\* the expression a word of a source is
Operand(lexeme) ==
    IF lexeme \in DOMAIN Digits THEN Literal(Num(Digits[lexeme]))
    ELSE Variable(IdentTok(lexeme))
BinaryOf(left, lexeme, right) == Binary(left, TokenOf(lexeme), right)

\* a o1 b o2 c: o2 takes b only when it binds tighter than o1
FlatTree(w, o1, o2) ==
    IF BinaryLevel[o2] > BinaryLevel[o1]
    THEN BinaryOf(Operand(w[1]), o1, BinaryOf(Operand(w[2]), o2, Operand(w[3])))
    ELSE BinaryOf(BinaryOf(Operand(w[1]), o1, Operand(w[2])), o2, Operand(w[3]))
GroupLeftTree(w, o1, o2) ==
    BinaryOf(Grouping(BinaryOf(Operand(w[1]), o1, Operand(w[2]))), o2, Operand(w[3]))
GroupRightTree(w, o1, o2) ==
    BinaryOf(Operand(w[1]), o1, Grouping(BinaryOf(Operand(w[2]), o2, Operand(w[3]))))

\* parse() returned `print expr;` and nothing else
ParsedPrint(expr) == parsed = <<"Ok", <<PrintStmt(expr)>>>>
\* the run of the parsed program, once over, printed this and succeeded
Printed(text) == result # "none" => result = "Ok" /\ output = <<text>>

\* C10: operators of one level nest to the left, an operator of a higher
\* level (factor over term over comparison over equality) takes its operands
\* first, and a Grouping is one operand: a - b - c is (a - b) - c,
\* 1 + 2 * 3 is 1 + (2 * 3) and prints 7, (1 + 2) * 3 prints 9.
C10_LeftAssociativePrecedence ==
    /\ ParseEnded =>
           \A w \in Operands, o1 \in DOMAIN BinaryLevel, o2 \in DOMAIN BinaryLevel :
               /\ Source(Flat(w, o1, o2)) => ParsedPrint(FlatTree(w, o1, o2))
               /\ Source(GroupLeft(w, o1, o2)) => ParsedPrint(GroupLeftTree(w, o1, o2))
               /\ Source(GroupRight(w, o1, o2)) => ParsedPrint(GroupRightTree(w, o1, o2))
    /\ Source(Flat(<<"1", "2", "3">>, "+", "*")) => Printed("7")
    /\ Source(GroupLeft(<<"1", "2", "3">>, "+", "*")) => Printed("9")
    /\ Source(Flat(<<"1", "2", "3">>, "-", "-")) => Printed("-4")
    /\ Source(GroupRight(<<"1", "2", "3">>, "-", "-")) => Printed("2")

\* 1 + 2 * 3 parsed, the product the right operand of the sum, and run
C10_Witness ==
    /\ Source(<<"print", "1", "+", "2", "*", "3", ";">>)
    /\ ParsedPrint(BinaryOf(Literal(Num(1)), "+",
                            BinaryOf(Literal(Num(2)), "*", Literal(Num(3)))))
    /\ result = "Ok" /\ output = <<"7">>

\* a - b - c parsed, the first difference the left operand of the second
C10_WitnessLeftNested ==
    /\ Source(<<"print", "a", "-", "b", "-", "c", ";">>)
    /\ ParsedPrint(BinaryOf(BinaryOf(Variable(IdentTok("a")), "-", Variable(IdentTok("b"))),
                            "-", Variable(IdentTok("c"))))

\* parse() returned `expr;` and nothing else
ParsedExpression(expr) == parsed = <<"Ok", <<ExpressionStmt(expr)>>>>
\* the Variable named by a word
Var(lexeme) == Variable(IdentTok(lexeme))

C11_WitnessInvalidTarget ==
    /\ Source(<<"(", "a", ")", "=", "1", ";">>)
    /\ stderr = <<<<"InvalidAssignmentTarget">>>> /\ parsed = HadErrorResult

LogicalOf(left, lexeme, right) == Logical(left, TokenOf(lexeme), right)

\* C12: and, or make Logical nodes, never Binary ones, nest to the left, and
\* bind looser than equality and tighter than assignment, or looser than
\* and: x = a == b and c or d is x = (((a == b) and c) or d).
C12_LogicalPrecedence ==
    ParseEnded =>
        /\ Source(AssignedLogical) =>
               ParsedExpression(
                   Assign(IdentTok("x"),
                          LogicalOf(LogicalOf(BinaryOf(Var("a"), "==", Var("b")), "and", Var("c")),
                                    "or", Var("d"))))
        /\ Source(<<"a", "and", "b", "==", "c", ";">>) =>
               ParsedExpression(LogicalOf(Var("a"), "and", BinaryOf(Var("b"), "==", Var("c"))))
        /\ Source(<<"a", "==", "b", "or", "c", ";">>) =>
               ParsedExpression(LogicalOf(BinaryOf(Var("a"), "==", Var("b")), "or", Var("c")))
        /\ \A o1 \in {"and", "or"}, o2 \in {"and", "or"} :
               Source(LogicalPair(o1, o2)) =>
                   ParsedExpression(
                       IF o1 = "or" /\ o2 = "and"
                       THEN LogicalOf(Var("a"), o1, LogicalOf(Var("b"), o2, Var("c")))
                       ELSE LogicalOf(LogicalOf(Var("a"), o1, Var("b")), o2, Var("c")))

\* x = a == b and c or d parsed
C12_Witness ==
    /\ Source(AssignedLogical)
    /\ parsed[1] = "Ok" /\ Len(parsed[2]) = 1
    /\ parsed[2][1][2][1] = "Assign"
    /\ parsed[2][1][2][3][1] = "Logical" /\ parsed[2][1][2][3][3].token_type = "Or"
    /\ parsed[2][1][2][3][2][1] = "Logical" /\ parsed[2][1][2][3][2][3].token_type = "And"

UnaryOf(lexeme, right) == Unary(TokenOf(lexeme), right)

\* C13: a unary operator takes the operand next to it before any binary
\* operator does, and unary operators nest to the right: -a * b is (-a) * b,
\* a * -b is a * (-b), !-a is !(-a).
C13_UnaryBindsTightest ==
    ParseEnded =>
        /\ \A u \in {"-", "!"}, o \in DOMAIN BinaryLevel :
               /\ Source(UnaryFirst(u, o))
                      => ParsedExpression(BinaryOf(UnaryOf(u, Var("a")), o, Var("b")))
               /\ Source(UnarySecond(u, o))
                      => ParsedExpression(BinaryOf(Var("a"), o, UnaryOf(u, Var("b"))))
        /\ \A u1 \in {"-", "!"}, u2 \in {"-", "!"} :
               Source(UnaryPair(u1, u2))
                   => ParsedExpression(UnaryOf(u1, UnaryOf(u2, Var("a"))))

\* -a * b parsed
C13_Witness ==
    /\ Source(<<"-", "a", "*", "b", ";">>)
    /\ ParsedExpression(BinaryOf(UnaryOf("-", Var("a")), "*", Var("b")))

\* !-a parsed
C13_WitnessNested ==
    /\ Source(<<"!", "-", "a", ";">>)
    /\ ParsedExpression(UnaryOf("!", UnaryOf("-", Var("a"))))

\* the Literal of true or false
BoolLiteral(lexeme) == Literal(Bool(lexeme = "true"))
\* the run of the parsed program is over
RunEnded == pc = "interpret" /\ result # "none"

\* C14: an else belongs to the nearest if before it that has none:
\* if (c1) if (c2) print 1; else print 2;  is  If(c1, If(c2, print 1,
\* Some(print 2)), None); with c1 true and c2 false it prints 2, with c1
\* false it prints nothing.
C14_DanglingElse ==
    \A c1 \in {"true", "false"}, c2 \in {"true", "false"} :
        Source(DanglingElse(c1, c2)) =>
            /\ ParseEnded =>
                   parsed = <<"Ok", <<IfStmt(BoolLiteral(c1),
                                             IfStmt(BoolLiteral(c2),
                                                    PrintStmt(Literal(Num(1))),
                                                    Some(PrintStmt(Literal(Num(2))))),
                                             None)>>>>
            /\ RunEnded =>
                   /\ result = "Ok"
                   /\ output = IF c1 = "false" THEN <<>>
                               ELSE IF c2 = "true" THEN <<"1">> ELSE <<"2">>

\* if (true) if (false) print 1; else print 2;  printed 2
C14_Witness ==
    /\ Source(DanglingElse("true", "false"))
    /\ result = "Ok" /\ output = <<"2">>

\* if (false) if (true) print 1; else print 2;  printed nothing
C14_WitnessNothing ==
    /\ Source(DanglingElse("false", "true"))
    /\ result = "Ok" /\ output = <<>>

(***************************************************************************)
(* Properties of evaluate_expression                                       *)
(***************************************************************************)
\* var r = <expression>; has been executed, or has failed
Evaluated ==
    /\ pc = "interpret" /\ result = "none"
    /\ Len(program) = 2 /\ program[2][1] = "Var" /\ program[2][2] = target
    /\ Len(kont) = 1 /\ Head(kont)[2] = <<>>
\* the expression evaluated
Evaluates(expr) == program[2][3] = Some(expr)
\* what evaluating it returned
Returned(value) == raised = "none" /\ envs[1].values["r"] = value
Failed(error) == raised = error /\ "r" \notin DOMAIN envs[1].values
\* the one other binding, that of x, afterwards
Leaves(value) == envs[1].values["x"] = value

\* the value of an operand
ValueOf(operand) ==
    CASE operand = InfOperand -> Number(PosInf)
      [] operand = NaNOperand -> Number(<<0, 0>>)
      [] OTHER -> operand[2]

Falsy(value) == value = Nil \/ value = Bool(FALSE)

\* evaluating the right operand, x bound to value: what it returns and
\* what it leaves x bound to
RightReturns(right, value) ==
    CASE right = Variable(y) -> Failed("UndefinedVariable") /\ Leaves(value)
      [] right = Assign(x, Literal(Num(2))) -> Returned(Num(2)) /\ Leaves(Num(2))
      [] right = Variable(x) -> Returned(value) /\ Leaves(value)
      [] OTHER -> Returned(right[2]) /\ Leaves(value)

\* left op right, the left operand having returned value and left x
\* bound to bound
LogicalReturns(value, bound, op, right) ==
    IF (op = "or" /\ ~Falsy(value)) \/ (op = "and" /\ Falsy(value))
    THEN Returned(value) /\ Leaves(bound)
    ELSE RightReturns(right, bound)

\* C15: a Logical evaluates its left operand first; `or` with a truthy left
\* value and `and` with a falsy one return that value itself and do not
\* evaluate the right operand, which then neither fails nor assigns;
\* otherwise the value is that of the right operand.
C15_LogicalShortCircuit ==
    Evaluated =>
        \A op \in {"or", "and"}, right \in RightOperands :
            /\ \A left \in EvalOperands :
                   /\ Evaluates(Logical(left, TokenOf(op), right))
                          => LogicalReturns(ValueOf(left), Num(1), op, right)
                   /\ Evaluates(Logical(Assign(x, left), TokenOf(op), right))
                          => LogicalReturns(ValueOf(left), ValueOf(left), op, right)
            /\ Evaluates(Logical(Variable(y), TokenOf(op), right))
                   => Failed("UndefinedVariable") /\ Leaves(Num(1))

\* 0 or y: 0 is truthy, the undefined y is not read
C15_Witness ==
    /\ Evaluated /\ Evaluates(Logical(Literal(Num(0)), TokenOf("or"), Variable(y)))
    /\ Returned(Num(0)) /\ Leaves(Num(1))

\* nil and (x = 2): nil is falsy, x is not assigned
C15_WitnessAnd ==
    /\ Evaluated
    /\ Evaluates(Logical(Literal(Nil), TokenOf("and"), Assign(x, Literal(Num(2)))))
    /\ Returned(Nil) /\ Leaves(Num(1))

\* (x = nil) or x: the left operand assigned before the right one read
C15_WitnessRight ==
    /\ Evaluated
    /\ Evaluates(Logical(Assign(x, Literal(Nil)), TokenOf("or"), Variable(x)))
    /\ Returned(Nil) /\ Leaves(Nil)

\* C16: exactly Nil and Bool(false) are falsy, Number(0) and the empty
\* String are truthy; `!` takes an operand of any type, fails only if the
\* operand fails, and returns Bool(true) exactly for a falsy operand, so
\* that !!v is Bool(v is truthy).
C16_Truthiness ==
    Evaluated =>
        /\ \A operand \in EvalOperands :
               /\ Evaluates(Unary(TokenOf("!"), operand))
                      => Returned(Bool(Falsy(ValueOf(operand))))
               /\ Evaluates(Unary(TokenOf("!"), Unary(TokenOf("!"), operand)))
                      => Returned(Bool(~Falsy(ValueOf(operand))))
        /\ Evaluates(Unary(TokenOf("!"), Variable(y))) => Failed("UndefinedVariable")
        /\ (\E expr \in NotExprs : Evaluates(expr)) => Leaves(Num(1))

\* !0 is false: Number(0) is truthy
C16_Witness ==
    /\ Evaluated /\ Evaluates(Unary(TokenOf("!"), Literal(Num(0))))
    /\ Returned(Bool(FALSE))

\* !!"" is true: the empty String is truthy
C16_WitnessTwice ==
    /\ Evaluated
    /\ Evaluates(Unary(TokenOf("!"), Unary(TokenOf("!"), Literal(String("")))))
    /\ Returned(Bool(TRUE))

\* !nil is true
C16_WitnessFalsy ==
    /\ Evaluated /\ Evaluates(Unary(TokenOf("!"), Literal(Nil)))
    /\ Returned(Bool(TRUE))

\* the same variant and the same payload
SameValue(first, second) == first = second
\* the same variant and payloads that are equal as the payload type
\* compares them: an f64 NaN is equal to nothing, itself included
EqualValue(first, second) == first = second /\ first # Number(<<0, 0>>)

LeftOf(expr) == ValueOf(expr[2])
RightOf(expr) == ValueOf(expr[4])

\* C17 as stated: == and != never fail and return a Bool; Nil == Nil;
\* Nil is unequal to every other value in both orders; values of different
\* variants are never equal; values of the same variant are equal exactly
\* when their payloads are the same; != is the negation of ==.
C17_EqualityStructural ==
    Evaluated =>
        \A expr \in EqualityExprs :
            Evaluates(expr) =>
                Returned(Bool(SameValue(LeftOf(expr), RightOf(expr))
                                  = (expr[3].lexeme = "==")))

\* C17, amended: as stated, except that two Numbers are equal exactly when
\* the f64 comparison says so, so that a NaN is unequal to every value,
\* itself included.
C17_Equality ==
    Evaluated =>
        \A expr \in EqualityExprs :
            Evaluates(expr) =>
                /\ Returned(Bool(EqualValue(LeftOf(expr), RightOf(expr))
                                     = (expr[3].lexeme = "==")))
                /\ Leaves(Num(1))

\* 1 == "1" is false: no coercion
C17_Witness ==
    /\ Evaluated
    /\ Evaluates(Binary(Literal(Num(1)), TokenOf("=="), Literal(String("1"))))
    /\ Returned(Bool(FALSE))

\* nil == nil is true, and false != nil is true
C17_WitnessNil ==
    /\ Evaluated
    /\ \/ Evaluates(Binary(Literal(Nil), TokenOf("=="), Literal(Nil)))
       \/ Evaluates(Binary(Literal(Bool(FALSE)), TokenOf("!="), Literal(Nil)))
    /\ Returned(Bool(TRUE))

\* (0 / 0) == (0 / 0) is false
C17_WitnessNaN ==
    /\ Evaluated /\ Evaluates(Binary(NaNOperand, TokenOf("=="), NaNOperand))
    /\ Returned(Bool(FALSE))

IsNumber(value) == value[1] = "Number"
IsString(value) == value[1] = "String"
\* the Numbers of the operands: NaN, inf, or an integer
NaNValue == Number(<<0, 0>>)
InfValue == Number(PosInf)
IntOf(value) == value[2]

\* the sum of two of them
SumOf(first, second) ==
    IF first = NaNValue \/ second = NaNValue THEN NaNValue
    ELSE IF first = InfValue \/ second = InfValue THEN InfValue
    ELSE Num(IntOf(first) + IntOf(second))

\* C18: + succeeds exactly for two Numbers, with their sum, and for two
\* Strings, with the left text followed by the right one; for every other
\* pair of variants it fails with IncompatibleTypes.
C18_PlusOperands ==
    Evaluated =>
        \A expr \in PlusExprs :
            Evaluates(expr) =>
                /\ Leaves(Num(1))
                /\ IF IsNumber(LeftOf(expr)) /\ IsNumber(RightOf(expr))
                   THEN Returned(SumOf(LeftOf(expr), RightOf(expr)))
                   ELSE IF IsString(LeftOf(expr)) /\ IsString(RightOf(expr))
                   THEN Returned(String(LeftOf(expr)[2] \o RightOf(expr)[2]))
                   ELSE Failed("IncompatibleTypes")

\* "a" + 1 fails with IncompatibleTypes
C18_Witness ==
    /\ Evaluated
    /\ Evaluates(Binary(Literal(String("a")), TokenOf("+"), Literal(Num(1))))
    /\ Failed("IncompatibleTypes")

\* "a" + "1" is "a1", and 1 + 2 is 3
C18_WitnessSucceeds ==
    /\ Evaluated
    /\ \/ /\ Evaluates(Binary(Literal(String("a")), TokenOf("+"), Literal(String("1"))))
          /\ Returned(String("a1"))
       \/ /\ Evaluates(Binary(Literal(Num(1)), TokenOf("+"), Literal(Num(2))))
          /\ Returned(Num(3))

\* what evaluating returned is of this variant
ReturnedA(variant) == raised = "none" /\ envs[1].values["r"][1] = variant

\* the variant an operator returns
VariantOf(op) == IF op \in {"-", "/", "*"} THEN "Number" ELSE "Bool"

IsInt(value) == IsNumber(value) /\ value # NaNValue /\ value # InfValue

\* left op right on two integers, the divisions apart
IntResult(op, a, b) ==
    CASE op = "-" -> Num(a - b)
      [] op = "*" -> Num(a * b)
      [] op = ">" -> Bool(a > b)
      [] op = ">=" -> Bool(a >= b)
      [] op = "<" -> Bool(a < b)
      [] OTHER -> Bool(a <= b)

\* C19: -, /, *, >, >=, <, <= and unary - fail with NumberOperand exactly
\* when an operand is not a Number; on Numbers they succeed, a division by
\* zero included, the comparisons with a Bool and the others with a Number.
C19_NumberOperands ==
    Evaluated =>
        /\ \A op \in NumberOperators, left \in EvalOperands, right \in EvalOperands :
               Evaluates(Binary(left, TokenOf(op), right)) =>
                   /\ Leaves(Num(1))
                   /\ IF IsNumber(ValueOf(left)) /\ IsNumber(ValueOf(right))
                      THEN /\ ReturnedA(VariantOf(op))
                           /\ IsInt(ValueOf(left)) /\ IsInt(ValueOf(right)) /\ op # "/"
                                  => Returned(IntResult(op, IntOf(ValueOf(left)),
                                                        IntOf(ValueOf(right))))
                           /\ op = "/" /\ IsInt(ValueOf(left)) /\ ValueOf(right) = Num(0)
                                  => Returned(IF ValueOf(left) = Num(0)
                                              THEN NaNValue ELSE InfValue)
                      ELSE Failed("NumberOperand")
        /\ \A operand \in EvalOperands :
               Evaluates(Unary(TokenOf("-"), operand)) =>
                   /\ Leaves(Num(1))
                   /\ IF IsNumber(ValueOf(operand))
                      THEN /\ ReturnedA("Number")
                           /\ IsInt(ValueOf(operand)) /\ ValueOf(operand) # Num(0)
                                  => Returned(Num(0 - IntOf(ValueOf(operand))))
                      ELSE Failed("NumberOperand")

\* 2 / 0 is inf, a Number
C19_Witness ==
    /\ Evaluated
    /\ Evaluates(Binary(Literal(Num(2)), TokenOf("/"), Literal(Num(0))))
    /\ Returned(InfValue)

\* 1 < "1", nil * 2 and -"a" fail with NumberOperand
C19_WitnessFails ==
    /\ Evaluated
    /\ \/ Evaluates(Binary(Literal(Num(1)), TokenOf("<"), Literal(String("1"))))
       \/ Evaluates(Binary(Literal(Nil), TokenOf("*"), Literal(Num(2))))
       \/ Evaluates(Unary(TokenOf("-"), Literal(String("a"))))
    /\ Failed("NumberOperand")

\* 1 <= 2 is true, a Bool, and 1 - 2 is -1, a Number
C19_WitnessSucceeds ==
    /\ Evaluated
    /\ \/ /\ Evaluates(Binary(Literal(Num(1)), TokenOf("<="), Literal(Num(2))))
          /\ Returned(Bool(TRUE))
       \/ /\ Evaluates(Binary(Literal(Num(1)), TokenOf("-"), Literal(Num(2))))
          /\ Returned(Num(0 - 1))

\* interpret() is at a statement it has a step for, or has returned
Runs == ENABLED NextInterp \/ result # "none"

\* C20 as stated: a While evaluates its condition before each iteration and
\* executes the body each time it is truthy: the loop on a false condition
\* prints nothing and the statement after it prints 2; the loop counting x
\* from 0 up to 2 prints 0 and 1, and the statement after it prints 2; so
\* interpret(), while it has not returned, has a step to take, and when it
\* has returned it has printed just that.
C20_WhileRepeats ==
    pc = "interpret" =>
        /\ Source(WhileFalse) => Runs /\ (result # "none" => result = "Ok" /\ output = <<"2">>)
        /\ Source(WhileCounts)
               => Runs /\ (result # "none" => result = "Ok" /\ output = <<"0", "1", "2">>)

\* C25 as stated: synchronize stops at a keyword that begins a statement
\* without discarding it, and the declaration parsed next begins with that
\* keyword: in `print 1 + ; foo bar var x = 2;` the Var statement of x is
\* what is parsed after the two errors, and in `1 2 print 3;` the Print
\* statement is.
C25_SynchronizeKeepsKeyword ==
    ParseEnded =>
        /\ Source(SyncExample)
               => /\ statements = <<VarStmt(IdentTok("x"), Some(Literal(Num(2))))>>
                  /\ Len(stderr) = 2 /\ parsed = HadErrorResult
        /\ Source(SyncPrint)
               => /\ statements = <<PrintStmt(Literal(Num(3)))>>
                  /\ Len(stderr) = 1 /\ parsed = HadErrorResult

\* the statements and expressions the clauses of ForSources are
ForInitOf(init) ==
    IF init = <<";">> THEN <<>>
    ELSE IF init[1] = "var" THEN <<VarStmt(IdentTok("i"), Some(Literal(Num(0))))>>
    ELSE <<ExpressionStmt(Assign(IdentTok("i"), Literal(Num(0))))>>
ForCondOf(cond) ==
    IF cond = <<>> THEN Literal(Bool(TRUE))
    ELSE BinaryOf(Var("i"), "<", Literal(Num(2)))
ForIncrOf(incr) ==
    IF incr = <<>> THEN <<>>
    ELSE <<ExpressionStmt(Assign(IdentTok("i"), BinaryOf(Var("i"), "+", Literal(Num(1)))))>>
ForBody == PrintStmt(Var("i"))

\* C26 as stated: for every combination of present and omitted clauses the
\* for loop is a Block of the initializer, when present, and a While, whose
\* body is a Block of the original body and, when present, the increment as
\* an Expression statement; an omitted condition is Literal(Bool(true)).
C26_ForAlwaysBlocks ==
    ParseEnded =>
        \A init \in ForInits, cond \in ForConds, incr \in ForIncrs :
            Source(ForLoop(init, cond, incr)) =>
                parsed = <<"Ok", <<BlockStmt(ForInitOf(init) \o
                              <<WhileStmt(ForCondOf(cond),
                                          BlockStmt(<<ForBody>> \o ForIncrOf(incr)))>>)>> >>

\* C26, amended: the for loop is a While whose condition is the one given,
\* or Literal(Bool(true)) when omitted; its body is the original body when
\* the increment is omitted, and otherwise a Block of the original body and
\* the increment as an Expression statement; when there is an initializer
\* the result is a Block of the initializer and that While, and when there
\* is none it is the While itself.
C26_ForDesugars ==
    ParseEnded =>
        \A init \in ForInits, cond \in ForConds, incr \in ForIncrs :
            Source(ForLoop(init, cond, incr)) =>
                LET body == IF incr = <<>> THEN ForBody
                            ELSE BlockStmt(<<ForBody>> \o ForIncrOf(incr))
                    loop == WhileStmt(ForCondOf(cond), body)
                IN  parsed = <<"Ok", <<IF init = <<";">> THEN loop
                                       ELSE BlockStmt(ForInitOf(init) \o <<loop>>)>> >>

\* for (var i = 0; i < 2; i = i + 1) print i;
C26_Witness ==
    /\ ParseEnded
    /\ Source(ForLoop(<<"var", "i", "=", "0", ";">>, <<"i", "<", "2">>,
                      <<"i", "=", "i", "+", "1">>))
    /\ parsed[1] = "Ok" /\ parsed[2][1][1] = "Block"
    /\ parsed[2][1][2][2][1] = "While" /\ parsed[2][1][2][2][3][1] = "Block"

\* for (;;) print i;
C26_WitnessOmitted ==
    /\ ParseEnded /\ Source(ForLoop(<<";">>, <<>>, <<>>))
    /\ parsed = <<"Ok", <<WhileStmt(Literal(Bool(TRUE)), ForBody)>> >>

\* one iteration of the loop of parse(), declaration() having returned
ParseIteration == ParseDeclaration \/ ParseError

\* C27: parse terminates: every iteration of its loop, the declaration
\* parsed or failed and synchronized, leaves the cursor at least one token
\* further and never past Eof, so that the loop ends and parse returns
\* (or, its thread having panicked, is over).
C27_ParseTerminates ==
    /\ [][ParseIteration =>
              /\ parser'.current > parser.current
              /\ parser'.current <= Len(parser.tokens) - 1
              /\ parser'.tokens = parser.tokens]_vars
    /\ <>ParseEnded

\* two declarations failed, each was synchronized, and parse returned with
\* the cursor at Eof
C27_Witness ==
    /\ parsed = HadErrorResult /\ Len(stderr) = 2
    /\ parser.current = Len(parser.tokens) - 1

\* a declaration that failed at Eof: synchronize had no token to take
C27_WitnessAtEof ==
    /\ Source(<<"print">>) /\ parsed = HadErrorResult
    /\ stderr = <<<<"ExpectedExpression", 1>>>> /\ parser.current = 1

Last(seq) == seq[Len(seq)]

\* the Tokens an Expression and a Statement hold
RECURSIVE ExprTokens(_)
ExprTokens(expr) ==
    CASE expr[1] = "Assign" -> {expr[2]} \cup ExprTokens(expr[3])
      [] expr[1] \in {"Binary", "Logical"} ->
            {expr[3]} \cup ExprTokens(expr[2]) \cup ExprTokens(expr[4])
      [] expr[1] = "Grouping" -> ExprTokens(expr[2])
      [] expr[1] = "Unary" -> {expr[2]} \cup ExprTokens(expr[3])
      [] expr[1] = "Variable" -> {expr[2]}
      [] OTHER -> {}
RECURSIVE StmtTokens(_)
StmtTokens(stmt) ==
    CASE stmt[1] = "Block" -> UNION {StmtTokens(stmt[2][i]) : i \in DOMAIN stmt[2]}
      [] stmt[1] = "If" ->
            ExprTokens(stmt[2]) \cup StmtTokens(stmt[3])
                \cup (IF IsSome(stmt[4]) THEN StmtTokens(Unwrap(stmt[4])) ELSE {})
      [] stmt[1] = "Var" ->
            {stmt[2]} \cup (IF IsSome(stmt[3]) THEN ExprTokens(Unwrap(stmt[3])) ELSE {})
      [] stmt[1] = "While" -> ExprTokens(stmt[2]) \cup StmtTokens(stmt[3])
      [] OTHER -> ExprTokens(stmt[2])

\* the Parser with its cursor at Eof
AtEof == [parser EXCEPT !.current = Len(parser.tokens) - 1]

\* C28: the cursor starts at 0, never decreases and is never past the index
\* of Eof; advance moves it by one before Eof and leaves it alone at Eof,
\* where check, match_token_types and consume match no token type, Eof
\* included; no statement parsed holds the Eof token.
C28_CursorNeverPastEof ==
    /\ pc = "parse" => parser.current = 0
    /\ [][parser'.current >= parser.current]_vars
    /\ [](pc = "parse" =>
            /\ parser.current \in 0..(Len(parser.tokens) - 1)
            /\ advance(parser)[3].current
                   = IF is_at_end(parser) THEN parser.current ELSE parser.current + 1
            /\ \A i \in DOMAIN statements :
                   \A t \in StmtTokens(statements[i]) : t.token_type # "Eof"
            /\ ParseEnded =>
                   /\ is_at_end(AtEof) /\ advance(AtEof) = Ok(Last(parser.tokens), AtEof)
                   /\ \A token_type \in TokenTypes :
                          /\ check(AtEof, token_type) = Ok(FALSE, AtEof)
                          /\ match_token_types(AtEof, <<token_type>>) = Ok(FALSE, AtEof)
                          /\ consume(AtEof, token_type, "error") = Err("error", AtEof))

\* parse returned the statements of a source with a block and the cursor is
\* at Eof
C28_Witness ==
    /\ pc = "parse" /\ parsed[1] = "Ok" /\ Len(statements) = 3
    /\ statements[2][1] = "Block"
    /\ parser.current = Len(parser.tokens) - 1 /\ parser.current > MaxTokens
    /\ Last(parser.tokens).token_type = "Eof"

\* the error of an operator on a left operand that is no Number
TypeError(op) == IF op = "+" THEN "IncompatibleTypes" ELSE "NumberOperand"

\* C29: a Binary evaluates its left operand, then its right operand, and
\* only then looks at the types: an error of the left operand is the one
\* returned and the right operand is not evaluated; an assignment made by
\* the right operand stays when the operator then fails because of the type
\* of the left one; an error of the right operand comes before that of the
\* types.
C29_OperandsBeforeTypes ==
    Evaluated =>
        \A op \in TypedOperators :
            /\ \A right \in {Assigns, Variable(x), Variable(y)} :
                   Evaluates(Binary(Variable(y), TokenOf(op), right))
                       => Failed("UndefinedVariable") /\ Leaves(Num(1))
            /\ \A left \in {Literal(Nil), Literal(String("a")), Literal(Bool(TRUE))} :
                   /\ Evaluates(Binary(left, TokenOf(op), Assigns))
                          => Failed(TypeError(op)) /\ Leaves(Num(2))
                   /\ Evaluates(Binary(left, TokenOf(op), Variable(x)))
                          => Failed(TypeError(op)) /\ Leaves(Num(1))
                   /\ Evaluates(Binary(left, TokenOf(op), Variable(y)))
                          => Failed("UndefinedVariable") /\ Leaves(Num(1))
            /\ Evaluates(Binary(Assigns, TokenOf(op), Variable(x)))
                   => /\ Leaves(Num(2))
                      /\ Returned(IF op = "+" THEN Num(4)
                                  ELSE IF op = "/" THEN Num(1)
                                  ELSE IntResult(op, 2, 2))
            /\ Evaluates(Binary(Assigns, TokenOf(op), Variable(y)))
                   => Failed("UndefinedVariable") /\ Leaves(Num(2))

\* nil - (x = 2) fails with NumberOperand and x is 2
C29_Witness ==
    /\ Evaluated /\ Evaluates(Binary(Literal(Nil), TokenOf("-"), Assigns))
    /\ Failed("NumberOperand") /\ Leaves(Num(2))

\* y + (x = 2) fails with UndefinedVariable and x is still 1
C29_WitnessLeftFails ==
    /\ Evaluated /\ Evaluates(Binary(Variable(y), TokenOf("+"), Assigns))
    /\ Failed("UndefinedVariable") /\ Leaves(Num(1))

\* C30 as stated: a source whose only defect is one malformed statement
\* inside a well-formed block has exactly one error reported: the later
\* statements of the block and its closing brace add none.
C30_OneErrorInBlock ==
    ParseEnded =>
        \A lexemes \in BlockMalformedSources :
            Source(lexemes) => Len(stderr) = 1 /\ parsed = HadErrorResult


(***************************************************************************)
(* Properties of scan_tokens() (SpecScan).                                 *)
(***************************************************************************)
ScanEnded == scanned # None

\* the source scanned is these characters
Scans(chars) == Len(scanner.source) = Len(chars) /\ scanner.source = chars

\* the token scan_tokens made of a source that is one word
WordToken == scanner.tokens[1]

\* C24: every keyword lexeme is scanned into a token with the keyword's
\* token type, the keyword text as its lexeme and no literal (None), `true`,
\* `false` and `nil` included; an alphanumeric word that is no keyword is
\* scanned into an Identifier token with no literal.  Stated of every token
\* of every source, and of the sources that are one word.
C24_KeywordsWithoutLiteral ==
    /\ \A i \in DOMAIN scanner.tokens :
           LET token == scanner.tokens[i]
           IN  /\ token.lexeme \in DOMAIN Keywords
                    => token.token_type = Keywords[token.lexeme] /\ token.literal = None
               /\ token.token_type = "Identifier"
                    => token.lexeme \notin DOMAIN Keywords /\ token.literal = None
    /\ ScanEnded /\ scanner.source \in KeywordChars \cup WordChars
         => /\ scanned[1] = "Ok" /\ Len(scanner.tokens) = 2
            /\ WordToken.lexeme = Concat(scanner.source)
            /\ WordToken.literal = None
            /\ WordToken.token_type =
                   (IF WordToken.lexeme \in DOMAIN Keywords THEN Keywords[WordToken.lexeme]
                    ELSE "Identifier")


\* the number of newline characters among chars
Newlines(chars) == Cardinality({i \in DOMAIN chars : chars[i] = "\n"})

\* the characters of the sources that begin no lexeme
UnexpectedChars == {"@", "#", "$"}

\* chars[i] lies between the quotes of a string of a source without comments
InString(chars, i) == Cardinality({j \in 1..i - 1 : chars[j] = "\""}) % 2 = 1

\* the positions of the unexpected characters outside strings
Unexpected(chars) ==
    {i \in DOMAIN chars : chars[i] \in UnexpectedChars /\ ~InString(chars, i)}

\* the k-th of them
NthUnexpected(chars, k) ==
    CHOOSE i \in Unexpected(chars) : Cardinality({j \in Unexpected(chars) : j <= i}) = k

\* the last string of the source has no closing quote
Unterminated(chars) == Cardinality({j \in DOMAIN chars : chars[j] = "\""}) % 2 = 1

\* the errors of the erroneous lexemes of a source without comments match
\* `reported`: the unexpected characters in their order, each with its line,
\* and then the unterminated string
ReportsErrorsOf(chars, reported) ==
    LET n == Cardinality(Unexpected(chars))
    IN  /\ Len(reported) = n + (IF Unterminated(chars) THEN 1 ELSE 0)
        /\ \A k \in 1..n :
               LET i == NthUnexpected(chars, k)
               IN  reported[k] = <<"UnexpectedCharacter", chars[i],
                                   1 + Newlines(SubSeq(chars, 1, i - 1))>>
        /\ Unterminated(chars) => reported[n + 1][1] = "UnterminatedString"

\* C22: an erroneous lexeme (an unexpected character, an unterminated
\* string) is reported and scanning goes on behind it, so that every
\* erroneous lexeme of the source is reported, in order; scan_tokens then
\* returns HadError and no tokens exactly when something was reported, and
\* run() prints no token and hands nothing to a parser.
C22_ScanErrorsAggregated ==
    /\ [][stderr' # stderr =>
             /\ Len(stderr') = Len(stderr) + 1
             /\ SubSeq(stderr', 1, Len(stderr)) = stderr
             /\ scanned' = None
             /\ scanner'.current > scanner.current
             /\ scanner'.source = scanner.source
             /\ scanner'.tokens = scanner.tokens]_vars
    /\ [](ScanEnded =>
             /\ (\A i \in DOMAIN scanner.source : scanner.source[i] # "/")
                    => ReportsErrorsOf(scanner.source, stderr)
             /\ stderr # <<>> <=> scanned = <<"Err", <<"HadError">>>>
             /\ stderr = <<>> <=> scanned = <<"Ok", scanner.tokens>>
             /\ stderr # <<>> =>
                    /\ output = <<>>
                    /\ result \in {"none", "HadError"}
                    /\ pc = "scan" /\ parser = ParserNew(<<>>) /\ parsed = None)

\* `x = @;` and an unterminated string: both errors reported, the tokens
\* between them scanned, and run() returned HadError
C22_Witness ==
    /\ Scans(unterminated_source)
    /\ result = "HadError"
    /\ stderr = <<<<"UnexpectedCharacter", "@", 1>>, <<"UnterminatedString", 3>>>>
    /\ Len(scanner.tokens) = 5

\* two unexpected characters on two lines
C22_WitnessTwoCharacters ==
    /\ Scans(two_errors_source)
    /\ scanned = <<"Err", <<"HadError">>>>
    /\ stderr = <<<<"UnexpectedCharacter", "#", 1>>, <<"UnexpectedCharacter", "$", 2>>>>


\* a source without comments that has no erroneous lexeme
NoErroneousLexeme(chars) ==
    /\ \A i \in DOMAIN chars : chars[i] # "/"
    /\ Unexpected(chars) = {}
    /\ ~Unterminated(chars)

\* the line of what follows the first n characters
LineAfter(chars, n) == 1 + Newlines(SubSeq(chars, 1, n))

\* the tokens returned end with the one Eof, on the last line of the source;
\* the lines start at 1 and never decrease
EofLastLinesOrdered ==
    ScanEnded /\ scanned[1] = "Ok" =>
        LET tokens == scanned[2]
        IN  /\ tokens # <<>>
            /\ tokens[Len(tokens)] =
                   Token("Eof", "", None, LineAfter(scanner.source, Len(scanner.source)))
            /\ \A i \in 1..Len(tokens) - 1 : tokens[i].token_type # "Eof"
            /\ \A i \in DOMAIN tokens : tokens[i].line >= 1
            /\ \A i, j \in DOMAIN tokens : i <= j => tokens[i].line <= tokens[j].line

\* an iteration of the loop that began at `//` added no token and stopped
\* before the newline that ends the line, or at the end of the source
CommentGivesNoToken ==
    LET chars == scanner.source
        from == scanner'.start
        to == scanner'.current
    IN  /\ scanner' # scanner /\ scanned' = None
        /\ from + 2 <= Len(chars) /\ chars[from + 1] = "/" /\ chars[from + 2] = "/"
        => /\ scanner'.tokens = scanner.tokens
           /\ stderr' = stderr
           /\ to = Len(chars) \/ chars[to + 1] = "\n"
           /\ \A i \in from + 1..to : chars[i] # "\n"

\* an iteration of the loop added a token
TokenAdded == scanned' = None /\ Len(scanner'.tokens) = Len(scanner.tokens) + 1
NewToken == scanner'.tokens[Len(scanner'.tokens)]

\* C23, as stated: of a source that scans without error the tokens end with
\* exactly one Eof (empty lexeme, no literal, the last line of the source),
\* the lines start at 1 and never decrease, a token that follows k newline
\* characters, i.e. whose lexeme begins behind k of them, has line k + 1,
\* and a `//` comment gives no token.  The line of a token is stated of the
\* sources without comments that have no erroneous lexeme.
C23_LineOfTokenStart ==
    /\ []EofLastLinesOrdered
    /\ [][CommentGivesNoToken]_vars
    /\ [][NoErroneousLexeme(scanner.source) /\ TokenAdded =>
             NewToken.line = LineAfter(scanner.source, scanner'.start)]_vars

\* C23, amended: the same, the line of a token being k + 1 where k newline
\* characters lie before the END of its lexeme: a string that spans lines
\* has the line of its closing quote.  The line of a token is stated of
\* every source.
C23_LineOfTokenEnd ==
    /\ []EofLastLinesOrdered
    /\ [][CommentGivesNoToken]_vars
    /\ [][TokenAdded => NewToken.line = LineAfter(scanner.source, scanner'.current)]_vars

\* the source of the test comment_scan: the tokens are on line 2, Eof too
C23_Witness ==
    /\ Scans(comment_source)
    /\ scanned[1] = "Ok" /\ Len(scanned[2]) = 6
    /\ \A i \in 1..6 : scanned[2][i].line = 2
    /\ scanned[2][1].lexeme = "var"

\* a string of two lines: its token has line 2, what follows the next
\* newline line 3
C23_WitnessMultilineString ==
    /\ Scans(multiline_string_source)
    /\ scanned[1] = "Ok"
    /\ [i \in DOMAIN scanned[2] |-> scanned[2][i].line] = <<1, 2, 2, 2, 2, 3, 3>>
    /\ scanned[2][2].literal = Some(String("a\nb"))


(***************************************************************************)
(* Properties of Display for Expression (SpecPrint).                       *)
(***************************************************************************)
\* the round trip has come to its end: both Expressions evaluated, or the
\* printed text not scanned or not parsed
PrintEnded ==
    \/ values # None
    \/ scanned[1] = "Err"
    \/ reparsed # None /\ reparsed[1] # "Ok"

\* the printed text was scanned and parsed to its end, and evaluating what
\* was parsed returned what evaluating the original returned
RoundTrips ==
    /\ values # None
    /\ is_at_end(reparsed[3])
    /\ Unwrap(values)[1] = Unwrap(values)[2]

\* the source printed was these characters
Prints(source) == parser.tokens = scan_tokens(source)[2]

\* an Expression made of Number, Bool and Nil literals and unary operators
RECURSIVE Simple(_)
Simple(expr) ==
    CASE expr[1] = "Literal" -> expr[2][1] # "String"
      [] expr[1] = "Unary" -> Simple(expr[3])
      [] OTHER -> FALSE

\* an Expression in which there is a String literal
RECURSIVE HasString(_)
HasString(expr) ==
    CASE expr[1] = "Literal" -> expr[2][1] = "String"
      [] expr[1] \in {"Unary", "Assign"} -> HasString(expr[3])
      [] expr[1] = "Grouping" -> HasString(expr[2])
      [] expr[1] \in {"Binary", "Logical"} -> HasString(expr[2]) \/ HasString(expr[4])
      [] OTHER -> FALSE

\* evaluating the original Expression gives a Value
OriginalHasValue == EvaluateNew(original[2])[1] = "Ok"

\* C21, as stated: for every expression the parser accepts, printing the
\* Expression with Display, scanning and parsing the text and evaluating
\* the result gives the Value that evaluating the original Expression
\* gives.
C21_DisplayRoundTrip ==
    original[1] = "Ok" /\ PrintEnded /\ OriginalHasValue => RoundTrips

\* C21, amended: this is so for the Expressions made of Number, Bool and
\* Nil literals and unary operators, which give the same Value or the same
\* RuntimeError.  Of any other Expression without a String literal (one
\* with a Binary, Grouping, Variable, Assign or Logical in it) the printed
\* text is scanned but is rejected by expression(); a String literal is
\* printed without its quotes, and with the literals of the sources ("a",
\* "", "a b") the Value of the original is never what the round trip gives.
C21_DisplayRoundTripOfSimple ==
    original[1] = "Ok" /\ PrintEnded =>
        /\ Simple(original[2]) => RoundTrips
        /\ ~Simple(original[2]) /\ ~HasString(original[2])
             => scanned[1] = "Ok" /\ reparsed[1] = "Err"
        /\ HasString(original[2]) /\ OriginalHasValue => ~RoundTrips

\* `-1` is printed as `(- 1)`, which is parsed and evaluates to -1 as well
C21_Witness ==
    /\ Prints(<<"-", "1">>)
    /\ values # None
    /\ original[2] = Unary(TokenOf("-"), Literal(Num(1)))
    /\ printed = Some(<<"(", "-", " ", "1", ")">>)
    /\ reparsed[2] = Grouping(original[2])
    /\ values = Some(<<<<"Ok", Num(0 - 1)>>, <<"Ok", Num(0 - 1)>>>>)

\* `1 + 2` is printed as `(+ 1 2)`, which is no expression
C21_WitnessBinary ==
    /\ Prints(<<"1", " ", "+", " ", "2">>)
    /\ reparsed # None
    /\ original[2] = Binary(Literal(Num(1)), TokenOf("+"), Literal(Num(2)))
    /\ printed = Some(<<"(", "+", " ", "1", " ", "2", ")">>)
    /\ reparsed[1] = "Err"

\* `"a"` is printed as `a`, which is a variable
C21_WitnessString ==
    /\ Prints(<<"\"", "a", "\"">>)
    /\ values # None
    /\ printed = Some(<<"a">>)
    /\ reparsed[2] = Variable(IdentTok("a"))
    /\ values = Some(<<<<"Ok", String("a")>>, <<"Err", "UndefinedVariable">>>>)

====
